---- MODULE Spec2Model ----
(***************************************************************************)
(* A model of the Pascal-S front end: the Wirth-style symbol table and the *)
(* semantic visitor's declaration handling, the table-driven DFA, the      *)
(* longest-match lexer and its negative-number pass.                       *)
(*                                                                         *)
(* Python lists are 0-based; the sequences below are 1-based, so entry i   *)
(* of a Python list l is l[i + 1] here.  Index 0 of tab doubles, as in the *)
(* code, as the end-of-chain mark of the link chains.                      *)
(***************************************************************************)
EXTENDS Integers, Sequences, FiniteSets, TLC

VARIABLES
    \* ---- SymbolTable (semantic/symbol_table.py) ----
    tab, atab, btab, tx, ax, bx, level, display, dx,
    sym_err,        \* exception raised by the last symbol-table call, or "none"
    \* ---- history of the scopes, kept beside the table ----
    g_owner,        \* g_owner[i + 1]: id of the scope entry i was entered in
    g_open,         \* g_open[l + 1]: id of the scope open at level l
    g_count,        \* number of scopes opened so far
    g_last,         \* what the last operation was and what it was given
    \* ---- SemanticVisitor (semantic/visitor.py) ----
    vis_pc,         \* "new", "block" (inside visit_block), "done", "raised"
    vis_err,        \* the SemanticError that aborted the visit, or "none"
    vis_stack,      \* one frame per declaration handler that is still running
    type_map,       \* self.type_map: lower-cased type name -> Type
    current_function_type,
    \* ---- DFA (automaton/dfa/dfa.py) ----
    current_state,  \* self.current_state
    dfa_ret,        \* what the last call of step returned
    g_dfa,          \* the last DFA call: its name, its argument, the state before
    \* ---- Lexer.tokenize (lexer/lexer.py) and its Reader (text/reader.py) ----
    source_code, reader, tokens,
    lex_pc,         \* "scan" (in the outer loop), "returned", "raised"
    lex_err,        \* the exception tokenize ended with, or "none"
    g_scan,         \* one record per iteration of the outer loop
    \* ---- merge_negative_numbers and fix_char_literals called on a list ----
    pass_in, pass_out, pass_pc,
    \* ---- Parser (parser/parser.py) ----
    par_tokens,     \* self.tokens
    current_index, current_token,
    par_ret,        \* what the last call returned (<<>> when it raised)
    par_err,        \* the exception the last call raised: its kind and token
    g_par,          \* the last call: its name, its arguments, the cursor before
    \* ---- SemanticVisitor on statements and expressions ----
    sem_ret,        \* the Type the last visit returned (<<>> when it raised)
    sem_err,        \* the exception the last visit raised, or "none"
    g_sem,          \* the last visit: its name and the node visited
    \* ---- two visitors, one after the other, in one process ----
    first_run,      \* what the first visitor ended with (<<>> while it runs)
    g_ast           \* the visits of the first run; in the second, those left

symVars == <<tab, atab, btab, tx, ax, bx, level, display, dx, sym_err>>
ghostVars == <<g_owner, g_open, g_count, g_last>>
visVars == <<vis_pc, vis_err, vis_stack, type_map, current_function_type>>
dfaVars == <<current_state, dfa_ret, g_dfa>>
lexVars == <<source_code, reader, tokens, lex_pc, lex_err, g_scan>>
passVars == <<pass_in, pass_out, pass_pc>>
parVars == <<par_tokens, current_index, current_token, par_ret, par_err, g_par>>
semVars == <<sem_ret, sem_err, g_sem>>
runVars == <<first_run, g_ast>>
vars == <<symVars, ghostVars, visVars, dfaVars, lexVars, passVars, parVars, semVars,
          runVars>>

\* ---------------------------------------------------------------- bounds
MaxTab == 3          \* entries entered by the table operations of one run
MaxBlocks == 2       \* scopes opened in one run
MaxDecl == 4         \* names one visited program declares
MaxVars == 4         \* variables entered in one run of nested scopes
MaxDepth == 10       \* scopes opened in one run of nested scopes
MaxExits == 1        \* scopes left in one run of nested scopes
MaxArrays == 1       \* arrays entered in one run of nested scopes

\* ------------------------------------------------------------- constants
None == -1           \* Python's None where an index is expected
DisplaySize == 10

Names == {"x", "y"}

\* str.lower() on the identifiers and words the model uses.
StrLower(w) ==
    CASE w = "X" -> "x"
      [] w = "Y" -> "y"
      [] w = "Integer" -> "integer"
      [] w = "INTEGER" -> "integer"
      [] w = "Mulai" -> "mulai"
      [] w = "TRUE" -> "true"
      [] w = "P" -> "p"
      [] OTHER -> w
ObjectKinds == {"CONSTANT", "VARIABLE", "TYPE", "PROCEDURE", "FUNCTION"}

Max(S) == CHOOSE m \in S : \A k \in S : k <= m

\* ---------------------------------------------------------- SymbolTable
\* The table as one value, so that a handler can chain several calls.
ST == [tab |-> tab, atab |-> atab, btab |-> btab, tx |-> tx, ax |-> ax,
       bx |-> bx, level |-> level, display |-> display, dx |-> dx]

SymbolEntry(name, obj_kind, type, lev, address, ref, normal, link) ==
    [name |-> name, obj_kind |-> obj_kind, type |-> type, level |-> lev,
     address |-> address, ref |-> ref, normal |-> normal, link |-> link]

BlockEntry == [last |-> 0, lpar |-> 0, psze |-> 0, vsze |-> 0]

SymbolTableInit ==
    [tab |-> <<>>, atab |-> <<>>, btab |-> <<BlockEntry>>, tx |-> -1,
     ax |-> -1, bx |-> 0, level |-> 0,
     display |-> [l \in 0 .. DisplaySize - 1 |-> 0], dx |-> 0]

\* The link a new entry of kind obj_kind gets when last_idx heads the chain.
EnterLink(S, obj_kind, last_idx) ==
    IF obj_kind = "VARIABLE"
    THEN IF last_idx # 0 /\ S.tab[last_idx + 1].obj_kind = "VARIABLE"
         THEN last_idx ELSE 0
    ELSE IF obj_kind = "FIELD"
    THEN IF last_idx # 0
            /\ S.tab[last_idx + 1].obj_kind \in {"VARIABLE", "FIELD"}
         THEN last_idx ELSE 0
    ELSE last_idx

\* enter(name, obj_kind, type, level, ref, normal, address): the table after
\* the call; the index it returns is the new tx.
enter(S, name, obj_kind, type, lvl, ref, address) ==
    LET tx1 == S.tx + 1
        lev == IF lvl = None THEN S.level ELSE lvl
        block_idx == S.display[lev]
        last_idx == S.btab[block_idx + 1].last
        isVar == obj_kind = "VARIABLE"
        link == EnterLink(S, obj_kind, last_idx)
        addr == IF address # None THEN address
                ELSE IF isVar THEN S.dx ELSE 0
        dx1 == IF isVar /\ address = None THEN S.dx + 1 ELSE S.dx
        btab1 == [S.btab EXCEPT ![block_idx + 1] =
                     [@ EXCEPT !.last = tx1,
                               !.vsze = IF isVar THEN @ + 1 ELSE @]]
    IN [S EXCEPT !.tx = tx1,
                 !.dx = dx1,
                 !.btab = btab1,
                 !.tab = Append(S.tab,
                     SymbolEntry(name, obj_kind, type, lev, addr, ref, TRUE, link))]

\* The walk "while i != 0" along the link chain that starts at entry i.
RECURSIVE ChainFind(_, _, _)
ChainFind(S, i, name) ==
    IF i = 0 THEN None
    ELSE IF S.tab[i + 1].name = name THEN i
    ELSE ChainFind(S, S.tab[i + 1].link, name)

\* The loop "for lev in range(self.level, -1, -1)" of lookup, from lev down.
RECURSIVE LookupFrom(_, _, _)
LookupFrom(S, lev, name) ==
    IF lev < 0 THEN None
    ELSE LET i == ChainFind(S, S.btab[S.display[lev] + 1].last, name)
         IN IF i # None THEN i ELSE LookupFrom(S, lev - 1, name)

\* The fallback "for i in range(self.tx, -1, -1)": the last level-0 entry.
GlobalScan(S, name) ==
    LET hits == {i \in 0 .. S.tx :
                    S.tab[i + 1].name = name /\ S.tab[i + 1].level = 0}
    IN IF hits = {} THEN None ELSE Max(hits)

lookup(S, name) ==
    LET i == LookupFrom(S, S.level, name)
    IN IF i # None THEN i ELSE GlobalScan(S, name)

lookup_current_scope(S, name) ==
    ChainFind(S, S.btab[S.display[S.level] + 1].last, name)

ArrayEntry(index_type, element_type, low, high, element_size) ==
    [index_type |-> index_type, element_type |-> element_type, low |-> low,
     high |-> high, element_size |-> element_size,
     size |-> (high - low + 1) * element_size]

\* enter_array(...): the table after the call; the index it returns is the
\* new ax.
enter_array(S, index_type, element_type, low, high, element_size) ==
    [S EXCEPT !.ax = S.ax + 1,
              !.atab = Append(S.atab,
                  ArrayEntry(index_type, element_type, low, high, element_size))]

enter_block(S) ==
    [S EXCEPT !.bx = S.bx + 1, !.btab = Append(S.btab, BlockEntry)]

\* enter_scope raises IndexError at "self.display[self.level] = block_idx"
\* when the new level is not a slot of display; level, bx and btab have
\* then already changed.
EnterScopeRaises(S) == S.level + 1 >= DisplaySize

enter_scope(S) ==
    LET S1 == enter_block([S EXCEPT !.level = S.level + 1])
    IN IF EnterScopeRaises(S) THEN S1
       ELSE [S1 EXCEPT !.display[S1.level] = S1.bx, !.dx = 3]

\* A variant that leaves dx as the inner scope had it.
exit_scope_keeping_dx(S) ==
    IF S.level > 0 THEN [S EXCEPT !.level = S.level - 1] ELSE S

exit_scope(S) ==
    IF S.level > 0
    THEN [S EXCEPT !.level = S.level - 1,
                   !.dx = S.btab[S.display[S.level - 1] + 1].vsze]
    ELSE S

SetST(S) ==
    /\ tab' = S.tab
    /\ atab' = S.atab
    /\ btab' = S.btab
    /\ tx' = S.tx
    /\ ax' = S.ax
    /\ bx' = S.bx
    /\ level' = S.level
    /\ display' = S.display
    /\ dx' = S.dx

InitST(S) ==
    /\ tab = S.tab
    /\ atab = S.atab
    /\ btab = S.btab
    /\ tx = S.tx
    /\ ax = S.ax
    /\ bx = S.bx
    /\ level = S.level
    /\ display = S.display
    /\ dx = S.dx

\* ---------------------------------------------------------------- types
\* Type(kind): array_info and record_info are None (the empty sequence here).
Type(kind) == [kind |-> kind, array_info |-> <<>>, record_info |-> <<>>]

INTEGER_TYPE == Type("INTEGER")
REAL_TYPE == Type("REAL")
BOOLEAN_TYPE == Type("BOOLEAN")
CHAR_TYPE == Type("CHAR")
STRING_TYPE == Type("STRING")
VOID_TYPE == Type("VOID")

\* ------------------------------------------------- history of the scopes
\* given: the caller passed enter a level.
Owner(scope, name, obj_kind, given) ==
    [scope |-> scope, name |-> name, obj_kind |-> obj_kind, given |-> given]

Last(op, scope, tx0, dup, fresh) ==
    [op |-> op, scope |-> scope, tx0 |-> tx0, dup |-> dup, fresh |-> fresh]

\* The entries entered in the scope that is open at level l.
ScopeEntries(l) == {i \in 0 .. tx : g_owner[i + 1].scope = g_open[l + 1]}

\* The entries entered in scopes that have been exited.
ExitedEntries ==
    {i \in 0 .. tx : \A l \in 0 .. level : g_owner[i + 1].scope # g_open[l + 1]}

NamedIn(E, name) == {i \in E : tab[i + 1].name = name}

\* The names entered so far in the scope with this id.
DeclaredIn(scope) ==
    {g_owner[k].name : k \in {j \in 1 .. Len(g_owner) : g_owner[j].scope = scope}}

\* The entry near-to-far shadowing selects: the most recent entry called
\* name of the innermost open scope that has one, else None.
ScopedEntry(name) ==
    LET levs == {l \in 0 .. level : NamedIn(ScopeEntries(l), name) # {}}
    IN IF levs = {} THEN None
       ELSE Max(NamedIn(ScopeEntries(Max(levs)), name))

Level0Named(name) ==
    {i \in 0 .. tx : tab[i + 1].level = 0 /\ tab[i + 1].name = name}

\* ------------------------------------------- the table's operations, called
\* directly (any caller of SymbolTable)
TypeOfKind(obj_kind) ==
    IF obj_kind \in {"PROCEDURE", "PROGRAM"} THEN VOID_TYPE ELSE INTEGER_TYPE

\* enter(name, obj_kind, type) or enter(name, obj_kind, type, level=lvl) with
\* the level of the enclosing scope, the one explicit level callers pass
\* from inside a nested scope.
Enter(name, obj_kind, lvl) ==
    /\ sym_err = "none"
    /\ tx + 1 < MaxTab
    /\ lvl = None \/ (level > 0 /\ lvl = level - 1)
    /\ SetST(enter(ST, name, obj_kind, TypeOfKind(obj_kind), lvl, 0, None))
    /\ sym_err' = "none"
    /\ g_owner' = Append(g_owner,
           Owner(g_open[(IF lvl = None THEN level ELSE lvl) + 1], name, obj_kind,
                 lvl # None))
    /\ g_last' = Last("enter", None, tx, FALSE, 1)
    /\ UNCHANGED <<g_open, g_count>>
    /\ UNCHANGED <<visVars, dfaVars, lexVars, passVars, parVars, semVars, runVars>>

EnterScope ==
    /\ sym_err = "none"
    /\ bx < MaxBlocks
    /\ SetST(enter_scope(ST))
    /\ sym_err' = IF EnterScopeRaises(ST) THEN "IndexError" ELSE "none"
    /\ g_count' = g_count + 1
    /\ g_open' = Append(g_open, g_count + 1)
    /\ g_last' = Last("enter_scope", g_count + 1, tx, FALSE, 0)
    /\ UNCHANGED g_owner
    /\ UNCHANGED <<visVars, dfaVars, lexVars, passVars, parVars, semVars, runVars>>

ExitScope ==
    /\ sym_err = "none"
    /\ SetST(exit_scope(ST))
    /\ sym_err' = "none"
    /\ g_open' = IF level > 0 THEN SubSeq(g_open, 1, Len(g_open) - 1) ELSE g_open
    /\ g_last' = Last("exit_scope", IF level > 0 THEN g_open[Len(g_open)] ELSE None,
                      tx, FALSE, 0)
    /\ UNCHANGED <<g_owner, g_count>>
    /\ UNCHANGED <<visVars, dfaVars, lexVars, passVars, parVars, semVars, runVars>>

\* No visitor has run.
RunIdle ==
    /\ first_run = <<>>
    /\ g_ast = <<>>

VisitorIdle ==
    /\ vis_pc = "new"
    /\ vis_err = "none"
    /\ vis_stack = <<>>
    /\ type_map = <<>>
    /\ current_function_type = <<>>

\* ------------------------------------------------------- SemanticVisitor
\* RESERVED_WORDS followed by STANDARD_LIBRARY, as _init_builtins enters them.
Builtins ==
    << <<"salah", "CONSTANT", BOOLEAN_TYPE>>, <<"benar", "CONSTANT", BOOLEAN_TYPE>>,
       <<"integer", "TYPE", INTEGER_TYPE>>, <<"real", "TYPE", REAL_TYPE>>,
       <<"boolean", "TYPE", BOOLEAN_TYPE>>, <<"char", "TYPE", CHAR_TYPE>>,
       <<"string", "TYPE", STRING_TYPE>>,
       <<"dan", "PROCEDURE", VOID_TYPE>>, <<"atau", "PROCEDURE", VOID_TYPE>>,
       <<"tidak", "PROCEDURE", VOID_TYPE>>, <<"bagi", "PROCEDURE", VOID_TYPE>>,
       <<"mod", "PROCEDURE", VOID_TYPE>>, <<"program", "PROCEDURE", VOID_TYPE>>,
       <<"variabel", "PROCEDURE", VOID_TYPE>>, <<"konstanta", "PROCEDURE", VOID_TYPE>>,
       <<"tipe", "PROCEDURE", VOID_TYPE>>, <<"prosedur", "PROCEDURE", VOID_TYPE>>,
       <<"fungsi", "PROCEDURE", VOID_TYPE>>, <<"mulai", "PROCEDURE", VOID_TYPE>>,
       <<"selesai", "PROCEDURE", VOID_TYPE>>, <<"jika", "PROCEDURE", VOID_TYPE>>,
       <<"maka", "PROCEDURE", VOID_TYPE>>, <<"selain-itu", "PROCEDURE", VOID_TYPE>>,
       <<"selama", "PROCEDURE", VOID_TYPE>>, <<"lakukan", "PROCEDURE", VOID_TYPE>>,
       <<"untuk", "PROCEDURE", VOID_TYPE>>, <<"ke", "PROCEDURE", VOID_TYPE>>,
       <<"turun-ke", "PROCEDURE", VOID_TYPE>>, <<"larik", "PROCEDURE", VOID_TYPE>>,
       <<"write", "PROCEDURE", VOID_TYPE>>, <<"writeln", "PROCEDURE", VOID_TYPE>>,
       <<"read", "PROCEDURE", VOID_TYPE>>, <<"readln", "PROCEDURE", VOID_TYPE>>,
       <<"abs", "FUNCTION", INTEGER_TYPE>>, <<"sqr", "FUNCTION", INTEGER_TYPE>>,
       <<"sqrt", "FUNCTION", REAL_TYPE>>, <<"sin", "FUNCTION", REAL_TYPE>>,
       <<"cos", "FUNCTION", REAL_TYPE>>, <<"exp", "FUNCTION", REAL_TYPE>>,
       <<"ln", "FUNCTION", REAL_TYPE>>, <<"odd", "FUNCTION", BOOLEAN_TYPE>>,
       <<"ord", "FUNCTION", INTEGER_TYPE>>, <<"chr", "FUNCTION", CHAR_TYPE>>,
       <<"succ", "FUNCTION", INTEGER_TYPE>>, <<"pred", "FUNCTION", INTEGER_TYPE>> >>

\* The loops of _init_builtins: enter(name, kind, typ, level=0) for each.
RECURSIVE init_builtins(_, _)
init_builtins(S, defs) ==
    IF defs = <<>> THEN S
    ELSE init_builtins(enter(S, Head(defs)[1], Head(defs)[2], Head(defs)[3], 0, 0, None),
                       Tail(defs))

\* self.type_map as __init__ sets it: a sequence of <<name, Type>> pairs, the
\* pair of a name that is set again replacing the old one.
TypeMapInit ==
    << <<"integer", INTEGER_TYPE>>, <<"real", REAL_TYPE>>, <<"boolean", BOOLEAN_TYPE>>,
       <<"char", CHAR_TYPE>>, <<"string", STRING_TYPE>> >>

TypeMapHas(tm, name) == \E k \in 1 .. Len(tm) : tm[k][1] = name

TypeMapGet(tm, name) == tm[CHOOSE k \in 1 .. Len(tm) : tm[k][1] = name][2]

TypeMapSet(tm, name, type) ==
    IF TypeMapHas(tm, name)
    THEN [k \in 1 .. Len(tm) |-> IF tm[k][1] = name THEN <<name, type>> ELSE tm[k]]
    ELSE Append(tm, <<name, type>>)

\* visit_simple_type: the resolved Type, or <<>> where it raises
\* UndeclaredIdentifierError.
visit_simple_type(S, tm, name) ==
    IF TypeMapHas(tm, StrLower(name)) THEN TypeMapGet(tm, StrLower(name))
    ELSE LET idx == lookup(S, name)
         IN IF idx # None /\ S.tab[idx + 1].obj_kind = "TYPE"
            THEN S.tab[idx + 1].type
            ELSE <<>>

\* _infer_const_type on the runtime shape of the constant's value.
infer_const_type(shape) ==
    CASE shape = "bool" -> BOOLEAN_TYPE
      [] shape = "int" -> INTEGER_TYPE
      [] shape = "float" -> REAL_TYPE
      [] shape = "str1" -> CHAR_TYPE
      [] shape = "str" -> STRING_TYPE
      [] OTHER -> INTEGER_TYPE

Outcome(S, err) == [st |-> S, err |-> err]

\* The loop over node.identifiers of visit_var_declaration and of
\* visit_parameter: check the current scope, raise or enter, next identifier.
RECURSIVE declare_identifiers(_, _, _)
declare_identifiers(S, identifiers, type) ==
    IF identifiers = <<>> THEN Outcome(S, "none")
    ELSE IF lookup_current_scope(S, Head(identifiers)) # None
    THEN Outcome(S, "DuplicateDeclarationError")
    ELSE declare_identifiers(
             enter(S, Head(identifiers), "VARIABLE", type, None, 0, None),
             Tail(identifiers), type)

visit_var_declaration(S, tm, identifiers, type_name) ==
    LET type_spec == visit_simple_type(S, tm, type_name)
    IN IF type_spec = <<>> THEN Outcome(S, "UndeclaredIdentifierError")
       ELSE declare_identifiers(S, identifiers, type_spec)

visit_parameter(S, tm, identifiers, type_name) ==
    visit_var_declaration(S, tm, identifiers, type_name)

visit_const_declaration(S, identifier, shape) ==
    IF lookup_current_scope(S, identifier) # None
    THEN Outcome(S, "DuplicateDeclarationError")
    ELSE Outcome(enter(S, identifier, "CONSTANT", infer_const_type(shape), None, 0, None),
                 "none")

\* visit_type_declaration: duplicate check, then the type, then type_map and
\* the TYPE entry.
visit_type_declaration(S, tm, identifier, type_name) ==
    LET type_spec == visit_simple_type(S, tm, type_name)
    IN IF lookup_current_scope(S, identifier) # None
       THEN Outcome(S, "DuplicateDeclarationError")
       ELSE IF type_spec = <<>> THEN Outcome(S, "UndeclaredIdentifierError")
       ELSE Outcome(enter(S, identifier, "TYPE", type_spec, None, 0, None), "none")

\* A variant that enters the subprogram's own entry at the new level.
open_subprogram_at_level(S, name, obj_kind, type) ==
    IF lookup_current_scope(S, name) # None
    THEN Outcome(S, "DuplicateDeclarationError")
    ELSE IF EnterScopeRaises(S) THEN Outcome(enter_scope(S), "IndexError")
    ELSE LET S1 == enter_scope(S)
             block_idx == S1.display[S1.level]
         IN Outcome(enter(S1, name, obj_kind, type, None, block_idx, None), "none")

\* visit_procedure_declaration / visit_function_declaration up to the visit
\* of the parameters: duplicate check in the enclosing scope, enter_scope,
\* then the subprogram's own entry at level - 1 with ref = the new block.
open_subprogram(S, name, obj_kind, type) ==
    IF lookup_current_scope(S, name) # None
    THEN Outcome(S, "DuplicateDeclarationError")
    ELSE IF EnterScopeRaises(S) THEN Outcome(enter_scope(S), "IndexError")
    ELSE LET S1 == enter_scope(S)
             block_idx == S1.display[S1.level]
         IN Outcome(enter(S1, name, obj_kind, type, S1.level - 1, block_idx, None),
                    "none")

\* ---- the grammar's order of the declarations of one block
PhaseRank(phase) ==
    CASE phase = "parameter" -> 0
      [] phase = "konstanta" -> 1
      [] phase = "tipe" -> 2
      [] phase = "variabel" -> 3
      [] phase = "subprogram" -> 4

Frame(node, phase, old_function_type) ==
    [node |-> node, phase |-> phase, old_function_type |-> old_function_type]

Top == vis_stack[Len(vis_stack)]

SetPhase(phase) == [vis_stack EXCEPT ![Len(vis_stack)].phase = phase]

InBlock(phase) ==
    /\ vis_pc = "block"
    /\ vis_stack # <<>>
    /\ PhaseRank(Top.phase) <= PhaseRank(phase)

\* The entries the visited program has added, its PROGRAM entry aside.
UserEntries == Len(tab) - Len(Builtins) - 1

\* What the identifiers of one declaration should come to, given the names
\* already entered in the scope: how many are entered before the first one
\* that is already there, and whether there is such a one.
RECURSIVE FreshPrefix(_, _)
FreshPrefix(identifiers, declared) ==
    IF identifiers = <<>> \/ Head(identifiers) \in declared THEN 0
    ELSE 1 + FreshPrefix(Tail(identifiers), declared \cup {Head(identifiers)})

HasDuplicate(identifiers, declared) ==
    FreshPrefix(identifiers, declared) < Len(identifiers)

\* The history after a handler that entered the table's new entries into
\* the scope with id scope.
RECURSIVE OwnersOf(_, _, _, _)
OwnersOf(S, from, to, scope) ==
    IF from > to THEN <<>>
    ELSE <<Owner(scope, S.tab[from + 1].name, S.tab[from + 1].obj_kind,
                 S.tab[from + 1].obj_kind \in {"PROCEDURE", "FUNCTION"})>>
             \o OwnersOf(S, from + 1, to, scope)

\* A handler ended with outcome out: the table, the error and the history.
Finish(out, scope, identifiers) ==
    /\ SetST(out.st)
    /\ vis_err' = out.err
    /\ vis_pc' = IF out.err = "none" THEN vis_pc ELSE "raised"
    /\ g_owner' = g_owner \o OwnersOf(out.st, tx + 1, out.st.tx, scope)
    /\ g_last' = Last("declare", scope, tx,
                      HasDuplicate(identifiers, DeclaredIn(scope)),
                      FreshPrefix(identifiers, DeclaredIn(scope)))
    /\ UNCHANGED <<sym_err, dfaVars, lexVars, passVars, parVars, semVars>>

\* The visit of one node of the tree: the first visitor's visits are kept in
\* order; a second visitor is given the same ones, in that order.
Visit(node, a, b) == <<node, a, b>>

Follow(visit_call) ==
    /\ first_run # <<>> => (g_ast # <<>> /\ Head(g_ast) = visit_call)
    /\ g_ast' = IF first_run = <<>> THEN Append(g_ast, visit_call) ELSE Tail(g_ast)
    /\ UNCHANGED first_run

IdentifierLists == {<<a>> : a \in Names} \cup {<<a, b>> : a \in Names, b \in Names}

TypeNames == {"integer", "real"}

\* visit_program: the PROGRAM entry at level 0, then the block.
VisitProgram(name) ==
    /\ vis_pc = "new"
    /\ Follow(Visit("Program", name, ""))
    /\ SetST(enter(ST, name, "PROGRAM", VOID_TYPE, 0, 0, None))
    /\ vis_pc' = "block"
    /\ vis_stack' = <<Frame("Program", "konstanta", <<>>)>>
    /\ g_owner' = Append(g_owner, Owner(g_open[1], name, "PROGRAM", TRUE))
    /\ g_last' = Last("program", g_open[1], tx, FALSE, 1)
    /\ UNCHANGED <<sym_err, g_open, g_count, vis_err, type_map, current_function_type>>
    /\ UNCHANGED <<dfaVars, lexVars, passVars, parVars, semVars>>

VisitConstDeclaration(identifier, shape) ==
    /\ InBlock("konstanta")
    /\ Follow(Visit("ConstDeclaration", identifier, shape))
    /\ UserEntries < MaxDecl
    /\ Finish(visit_const_declaration(ST, identifier, shape),
              g_open[level + 1], <<identifier>>)
    /\ vis_stack' = SetPhase("konstanta")
    /\ UNCHANGED <<g_open, g_count, type_map, current_function_type>>

VisitTypeDeclaration(identifier, type_name) ==
    /\ InBlock("tipe")
    /\ Follow(Visit("TypeDeclaration", identifier, type_name))
    /\ UserEntries < MaxDecl
    /\ LET out == visit_type_declaration(ST, type_map, identifier, type_name)
       IN /\ Finish(out, g_open[level + 1], <<identifier>>)
          /\ type_map' = IF out.err = "none"
                         THEN TypeMapSet(type_map, StrLower(identifier),
                                         visit_simple_type(ST, type_map, type_name))
                         ELSE type_map
    /\ vis_stack' = SetPhase("tipe")
    /\ UNCHANGED <<g_open, g_count, current_function_type>>

VisitVarDeclaration(identifiers, type_name) ==
    /\ InBlock("variabel")
    /\ Follow(Visit("VarDeclaration", identifiers, type_name))
    /\ UserEntries + Len(identifiers) <= MaxDecl
    /\ Finish(visit_var_declaration(ST, type_map, identifiers, type_name),
              g_open[level + 1], identifiers)
    /\ vis_stack' = SetPhase("variabel")
    /\ UNCHANGED <<g_open, g_count, type_map, current_function_type>>

VisitParameter(identifiers, type_name) ==
    /\ vis_pc = "block"
    /\ vis_stack # <<>>
    /\ Top.phase = "parameter"
    /\ Follow(Visit("Parameter", identifiers, type_name))
    /\ UserEntries + Len(identifiers) <= MaxDecl
    /\ Finish(visit_parameter(ST, type_map, identifiers, type_name),
              g_open[level + 1], identifiers)
    /\ UNCHANGED <<g_open, g_count, vis_stack, type_map, current_function_type>>

\* The subprogram's own entry belongs to the enclosing scope; the scope the
\* handler opens is the new innermost one.
OpenSubprogram(node, name, obj_kind, type) ==
    /\ InBlock("subprogram")
    /\ Follow(Visit(node, name, type))
    /\ UserEntries < MaxDecl
    /\ bx < MaxBlocks
    /\ LET out == open_subprogram(ST, name, obj_kind, type)
           opened == out.st.level > level
       IN /\ Finish(out, g_open[level + 1], <<name>>)
          /\ g_count' = IF opened THEN g_count + 1 ELSE g_count
          /\ g_open' = IF opened THEN Append(g_open, g_count + 1) ELSE g_open
          /\ vis_stack' = IF out.err = "none"
                          THEN Append(SetPhase("subprogram"),
                                      Frame(node, "parameter", current_function_type))
                          ELSE vis_stack
          /\ current_function_type' =
                 IF out.err = "none" /\ node = "FunctionDeclaration"
                 THEN type ELSE current_function_type
    /\ UNCHANGED type_map

VisitProcedureDeclaration(name) ==
    OpenSubprogram("ProcedureDeclaration", name, "PROCEDURE", VOID_TYPE)

\* return_type = self.visit(node.return_type) comes after the duplicate
\* check and before enter_scope.
VisitFunctionDeclaration(name, type_name) ==
    /\ visit_simple_type(ST, type_map, type_name) # <<>>
    /\ OpenSubprogram("FunctionDeclaration", name, "FUNCTION",
                      visit_simple_type(ST, type_map, type_name))

\* The rest of visit_procedure_declaration / visit_function_declaration, once
\* the block has been visited: exit_scope and, for a function, the old
\* current_function_type back.
ReturnFromSubprogram ==
    /\ vis_pc = "block"
    /\ Len(vis_stack) > 1
    /\ Follow(Visit("end", "", ""))
    /\ SetST(exit_scope(ST))
    /\ vis_stack' = SubSeq(vis_stack, 1, Len(vis_stack) - 1)
    /\ current_function_type' =
           IF Top.node = "FunctionDeclaration" THEN Top.old_function_type
           ELSE current_function_type
    /\ g_open' = SubSeq(g_open, 1, Len(g_open) - 1)
    /\ g_last' = Last("exit_scope", g_open[Len(g_open)], tx, FALSE, 0)
    /\ UNCHANGED <<sym_err, g_owner, g_count, vis_pc, vis_err, type_map>>
    /\ UNCHANGED <<dfaVars, lexVars, passVars, parVars, semVars>>

\* visit_program returns once the program's block has been visited.
ReturnFromProgram ==
    /\ vis_pc = "block"
    /\ Len(vis_stack) = 1
    /\ Follow(Visit("end", "", ""))
    /\ vis_pc' = "done"
    /\ vis_stack' = <<>>
    /\ g_last' = Last("done", None, tx, FALSE, 0)
    /\ UNCHANGED <<symVars, g_owner, g_open, g_count, vis_err, type_map,
                   current_function_type>>
    /\ UNCHANGED <<dfaVars, lexVars, passVars, parVars, semVars>>

\* ------------------------------------------------------------------- DFA
\* The characters of the sources the model reads.
LowerLetters == {"a", "d", "e", "k", "m", "n", "o"}
UpperLetters == {"A", "D", "E", "K", "M", "N", "O"}
Letters == LowerLetters \cup UpperLetters
Digits == {"1", "2"}
Chars == Letters \cup Digits \cup {".", "-", " ", "'", "\n", "@", ":", "="}

\* str.lower() on one character.
CharLower(c) ==
    CASE c = "A" -> "a" [] c = "D" -> "d" [] c = "E" -> "e" [] c = "K" -> "k"
      [] c = "M" -> "m" [] c = "N" -> "n" [] c = "O" -> "o" [] OTHER -> c

\* str.lower() on a lexeme.
Lower(w) == [k \in 1 .. Len(w) |-> CharLower(w[k])]

\* A DFAConfig of the shape Lexer._load_config builds: identifiers, numbers
\* with a fraction, white space, '-', '.', '..', ':', ':=' and quoted strings.
\* A character class stands for its pattern: the characters the pattern
\* matches.  The class "strchar" ([^\n]) matches the quote as well, for which
\* state "str" also has a literal transition.
DFAConfig ==
    [start_state |-> "q0",
     final_states |->
        {<<"id", "IDENTIFIER">>, <<"num", "NUMBER">>, <<"frac", "NUMBER">>,
         <<"ws", "WHITESPACE">>, <<"minus", "ARITHMETIC_OPERATOR">>,
         <<"dot", "DOT">>, <<"range", "RANGE_OPERATOR">>, <<"colon", "COLON">>,
         <<"assign", "ASSIGN_OPERATOR">>, <<"strend", "STRING_LITERAL">>},
     char_classes |->
        {<<"letter", Letters>>, <<"alnum", Letters \cup Digits>>,
         <<"digit", Digits>>, <<"space", {" ", "\n"}>>,
         <<"strchar", Chars \ {"\n"}>>},
     transitions |->
        << <<"q0", "letter", "id">>, <<"id", "alnum", "id">>,
           <<"q0", "digit", "num">>, <<"num", "digit", "num">>,
           <<"num", ".", "numdot">>, <<"numdot", "digit", "frac">>,
           <<"frac", "digit", "frac">>,
           <<"q0", "space", "ws">>, <<"ws", "space", "ws">>,
           <<"q0", "-", "minus">>,
           <<"q0", ".", "dot">>, <<"dot", ".", "range">>,
           <<"q0", ":", "colon">>, <<"colon", "=", "assign">>,
           <<"q0", "'", "str">>, <<"str", "strchar", "str">>,
           <<"str", "'", "strend">> >>,
     keywords |-> {<<"k", "e">>, <<"m", "o", "d">>},
     reserved_map |->
        {<<<<"d", "a", "n">>, "LOGICAL_OPERATOR">>,
         <<<<"m", "o", "d">>, "ARITHMETIC_OPERATOR">>}]

States ==
    {DFAConfig.start_state}
        \cup {DFAConfig.transitions[k][3] : k \in 1 .. Len(DFAConfig.transitions)}

NoState == "None"

\* dict.get and "in" on the configuration's maps (sets of <<key, value>>).
MapHas(map, key) == \E kv \in map : kv[1] = key

MapGet(map, key) == (CHOOSE kv \in map : kv[1] = key)[2]

\* self.char_class_patterns[input_sym].match(char)
ClassMatch(input_sym, char) ==
    MapHas(DFAConfig.char_classes, input_sym)
        /\ char \in MapGet(DFAConfig.char_classes, input_sym)

\* key in self.transitions, for key = (state, char)
HasLiteral(state, char) ==
    \E k \in 1 .. Len(DFAConfig.transitions) :
        DFAConfig.transitions[k][1] = state /\ DFAConfig.transitions[k][2] = char

LiteralTarget(state, char) ==
    DFAConfig.transitions[CHOOSE k \in 1 .. Len(DFAConfig.transitions) :
        DFAConfig.transitions[k][1] = state /\ DFAConfig.transitions[k][2] = char][3]

\* The transitions, in the order of the dict, that the loop of step accepts.
ClassHits(state, char) ==
    {k \in 1 .. Len(DFAConfig.transitions) :
        /\ DFAConfig.transitions[k][1] = state
        /\ ClassMatch(DFAConfig.transitions[k][2], char)}

Min(S) == CHOOSE m \in S : \A k \in S : m <= k

\* step with the loop over the character classes run before the lookup of
\* the literal key: the variant C10 is tried against.
step_class_first(state, char) ==
    IF ClassHits(state, char) # {}
    THEN DFAConfig.transitions[Min(ClassHits(state, char))][3]
    ELSE IF HasLiteral(state, char) THEN LiteralTarget(state, char)
    ELSE NoState

\* step(char) in state: the state it returns (NoState for None).  The state
\* after the call is that state, or the old one when it returns None.
step(state, char) ==
    IF HasLiteral(state, char) THEN LiteralTarget(state, char)
    ELSE IF ClassHits(state, char) # {}
    THEN DFAConfig.transitions[Min(ClassHits(state, char))][3]
    ELSE NoState

StateAfterStep(state, char) ==
    IF step(state, char) = NoState THEN state ELSE step(state, char)

\* can_transition with the literal key only: the variant C11 is tried
\* against.
can_transition_literal_only(state, char) == HasLiteral(state, char)

can_transition(state, char) ==
    HasLiteral(state, char) \/ ClassHits(state, char) # {}

\* get_token_type(): final_states.get(current_state), NoState for None.
get_token_type(state) ==
    IF MapHas(DFAConfig.final_states, state)
    THEN MapGet(DFAConfig.final_states, state) ELSE NoState

DfaCall(op, char, before) == [op |-> op, char |-> char, before |-> before]

DfaReset ==
    /\ current_state' = DFAConfig.start_state
    /\ dfa_ret' = NoState
    /\ g_dfa' = DfaCall("reset", "", current_state)
    /\ UNCHANGED <<symVars, ghostVars, visVars, lexVars, passVars, parVars,
                   semVars, runVars>>

DfaStep(char) ==
    /\ current_state' = StateAfterStep(current_state, char)
    /\ dfa_ret' = step(current_state, char)
    /\ g_dfa' = DfaCall("step", char, current_state)
    /\ UNCHANGED <<symVars, ghostVars, visVars, lexVars, passVars, parVars,
                   semVars, runVars>>

\* can_transition(char): the answer, with self.current_state not assigned.
DfaCanTransition(char) ==
    /\ dfa_ret' = can_transition(current_state, char)
    /\ g_dfa' = DfaCall("can_transition", char, current_state)
    /\ UNCHANGED current_state
    /\ UNCHANGED <<symVars, ghostVars, visVars, lexVars, passVars, parVars,
                   semVars, runVars>>

DfaIdle ==
    /\ current_state = DFAConfig.start_state
    /\ dfa_ret = NoState
    /\ g_dfa = DfaCall("new", "", DFAConfig.start_state)

LexerIdle ==
    /\ source_code = <<>>
    /\ reader = <<>>
    /\ tokens = <<>>
    /\ lex_pc = "new"
    /\ lex_err = "none"
    /\ g_scan = <<>>

\* ----------------------------------------------------------------- Reader
NoChar == "None"

Position(index, line, column) == [index |-> index, line |-> line, column |-> column]

\* Position.advance(current_char)
PositionAdvance(pos, current_char) ==
    IF current_char = "\n" THEN Position(pos.index + 1, pos.line + 1, 1)
    ELSE Position(pos.index + 1, pos.line, pos.column + 1)

\* Reader(text)
Reader(text) ==
    [text |-> text, pos |-> Position(0, 1, 1),
     current_char |-> IF text # <<>> THEN text[1] ELSE NoChar]

advance(rd) ==
    IF rd.current_char = NoChar THEN rd
    ELSE LET pos == PositionAdvance(rd.pos, rd.current_char)
         IN [rd EXCEPT !.pos = pos,
                       !.current_char = IF pos.index >= Len(rd.text) THEN NoChar
                                        ELSE rd.text[pos.index + 1]]

eof(rd) == rd.current_char = NoChar

\* ------------------------------------------------------------------ Lexer
Token(type, value, start, end) ==
    [type |-> type, value |-> value, start |-> start, end |-> end]

\* The locals of one iteration of the outer loop of tokenize, with the reader
\* and the automaton's state.
ScanStart(rd) ==
    [reader |-> rd, state |-> DFAConfig.start_state, lexeme |-> <<>>,
     last_accepted_state |-> NoState, accepted_lexeme |-> <<>>,
     accepted_pos |-> None]

\* One pass of the inner loop: the character is consumed, the automaton
\* steps, the reader advances, and a final state records the candidate.
ScanChar(sc) ==
    LET char == sc.reader.current_char
        state == StateAfterStep(sc.state, char)
        rd == advance(sc.reader)
        lexeme == Append(sc.lexeme, char)
    IN IF get_token_type(state) # NoState
       THEN [reader |-> rd, state |-> state, lexeme |-> lexeme,
             last_accepted_state |-> state, accepted_lexeme |-> lexeme,
             accepted_pos |-> rd.pos.index]
       ELSE [sc EXCEPT !.reader = rd, !.state = state, !.lexeme = lexeme]

RECURSIVE ScanLoop(_)
ScanLoop(sc) ==
    IF ~eof(sc.reader) /\ can_transition(sc.state, sc.reader.current_char)
    THEN ScanLoop(ScanChar(sc))
    ELSE sc

\* The two tests in the other order, the keyword set first: the variant C9
\* is tried against.
Reclassify_keywords_first(token_type, accepted_lexeme) ==
    IF token_type = "IDENTIFIER" /\ Lower(accepted_lexeme) \in DFAConfig.keywords
    THEN "KEYWORD"
    ELSE IF token_type = "IDENTIFIER"
            /\ MapHas(DFAConfig.reserved_map, Lower(accepted_lexeme))
    THEN MapGet(DFAConfig.reserved_map, Lower(accepted_lexeme))
    ELSE token_type

\* The kind of an accepted lexeme: the reserved map is asked first, the
\* keyword set second, both with the lower-cased text.
Reclassify(token_type, accepted_lexeme) ==
    IF token_type = "IDENTIFIER" /\ MapHas(DFAConfig.reserved_map, Lower(accepted_lexeme))
    THEN MapGet(DFAConfig.reserved_map, Lower(accepted_lexeme))
    ELSE IF token_type = "IDENTIFIER" /\ Lower(accepted_lexeme) \in DFAConfig.keywords
    THEN "KEYWORD"
    ELSE token_type

\* reader.set_position(accepted_pos): Reader defines no such method, so the
\* call raises AttributeError.
Overshot(sc) == sc.reader.pos.index # sc.accepted_pos

\* What one iteration of the outer loop leaves behind.
Iteration(start, raw, consumed, accepted, token, resume) ==
    [start |-> start, raw |-> raw, consumed |-> consumed, accepted |-> accepted,
     token |-> token, resume |-> resume]

\* --------------------------------------------------- merge_negative_numbers
Skipped == {"WHITESPACE", "COMMENT"}

\* j = i + 1; while j < len(tokens) and tokens[j].type in (...): j += 1
RECURSIVE NextMeaningful(_, _)
NextMeaningful(toks, j) ==
    IF j < Len(toks) /\ toks[j + 1].type \in Skipped
    THEN NextMeaningful(toks, j + 1) ELSE j

\* while prev_idx >= 0 and result[prev_idx].type in (...): prev_idx -= 1
RECURSIVE PrevMeaningful(_, _)
PrevMeaningful(result, prev_idx) ==
    IF prev_idx >= 0 /\ result[prev_idx + 1].type \in Skipped
    THEN PrevMeaningful(result, prev_idx - 1) ELSE prev_idx

unary_contexts ==
    {"ASSIGN_OPERATOR", "RELATIONAL_OPERATOR", "ARITHMETIC_OPERATOR",
     "LOGICAL_OPERATOR", "LPARENTHESIS", "LBRACKET", "COMMA", "COLON",
     "RANGE_OPERATOR"}

UnaryKeywords ==
    {<<"t", "h", "e", "n">>, <<"e", "l", "s", "e">>, <<"d", "o">>, <<"o", "f">>,
     <<"t", "o">>, <<"d", "o", "w", "n", "t", "o">>}

\* is_unary without the test of the previous token: the variant C8 is tried
\* against.
is_unary_always(result) == TRUE

\* is_unary as lines 30-58 compute it from the result list so far.

is_unary(result) ==
    LET prev_idx == PrevMeaningful(result, Len(result) - 1)
    IN IF prev_idx < 0 THEN TRUE
       ELSE LET prev_token == result[prev_idx + 1]
            IN \/ prev_token.type \in unary_contexts
               \/ /\ prev_token.type = "KEYWORD"
                  /\ Lower(prev_token.value) \in UnaryKeywords

RECURSIVE MergeLoop(_, _, _)
MergeLoop(toks, i, result) ==
    IF i >= Len(toks) THEN result
    ELSE IF toks[i + 1].type \in Skipped
    THEN MergeLoop(toks, i + 1, Append(result, toks[i + 1]))
    ELSE LET j == NextMeaningful(toks, i + 1)
         IN IF /\ toks[i + 1].type = "ARITHMETIC_OPERATOR"
               /\ toks[i + 1].value = <<"-">>
               /\ j < Len(toks)
               /\ toks[j + 1].type = "NUMBER"
               /\ is_unary(result)
            THEN MergeLoop(toks, j + 1,
                     Append(result, Token("NUMBER", <<"-">> \o toks[j + 1].value,
                                          toks[i + 1].start, toks[j + 1].end)))
            ELSE MergeLoop(toks, i + 1, Append(result, toks[i + 1]))

merge_negative_numbers(toks) == MergeLoop(toks, 0, <<>>)

\* -------------------------------------------------------- fix_char_literals
fix_char_literals(toks) ==
    [k \in 1 .. Len(toks) |->
        IF toks[k].type = "STRING_LITERAL" /\ Len(toks[k].value) = 3
        THEN Token("CHAR_LITERAL", toks[k].value, toks[k].start, toks[k].end)
        ELSE toks[k]]

\* ----------------------------------------------------------- tokenize
\* One iteration of the outer loop.
ScanToken ==
    /\ lex_pc = "scan"
    /\ ~eof(reader)
    /\ LET start_pos == reader.pos.index
           sc == ScanLoop(ScanStart(reader))
           raw == get_token_type(sc.last_accepted_state)
           token == Token(Reclassify(raw, sc.accepted_lexeme), sc.accepted_lexeme,
                          start_pos, start_pos + Len(sc.accepted_lexeme))
           unknown == Token("UNKNOWN", <<sc.reader.current_char>>,
                            sc.reader.pos.index, sc.reader.pos.index + 1)
       IN /\ current_state' = sc.state
          /\ IF sc.accepted_lexeme # <<>>
             THEN /\ tokens' = Append(tokens, token)
                  /\ reader' = sc.reader
                  /\ lex_pc' = IF Overshot(sc) THEN "raised" ELSE "scan"
                  /\ lex_err' = IF Overshot(sc) THEN "AttributeError" ELSE "none"
                  /\ g_scan' = Append(g_scan,
                         Iteration(start_pos, raw, Len(sc.lexeme),
                                   Len(sc.accepted_lexeme), <<token>>,
                                   sc.reader.pos.index))
             ELSE IF ~eof(sc.reader)
             THEN /\ tokens' = Append(tokens, unknown)
                  /\ reader' = advance(sc.reader)
                  /\ UNCHANGED <<lex_pc, lex_err>>
                  /\ g_scan' = Append(g_scan,
                         Iteration(start_pos, NoState, Len(sc.lexeme), 0, <<unknown>>,
                                   sc.reader.pos.index + 1))
             ELSE /\ reader' = sc.reader
                  /\ UNCHANGED <<tokens, lex_pc, lex_err>>
                  /\ g_scan' = Append(g_scan,
                         Iteration(start_pos, NoState, Len(sc.lexeme), 0, <<>>,
                                   sc.reader.pos.index))
    /\ dfa_ret' = NoState
    /\ g_dfa' = DfaCall("tokenize", "", current_state)
    /\ UNCHANGED <<source_code, symVars, ghostVars, visVars, passVars, parVars,
                   semVars, runVars>>

\* The end of the input: the two passes, then the return.
ReturnTokens ==
    /\ lex_pc = "scan"
    /\ eof(reader)
    /\ tokens' = fix_char_literals(merge_negative_numbers(tokens))
    /\ lex_pc' = "returned"
    /\ UNCHANGED <<source_code, reader, lex_err, g_scan>>
    /\ UNCHANGED <<symVars, ghostVars, visVars, dfaVars, passVars, parVars,
                   semVars, runVars>>

\* ------------------------------------------------- the passes on their own
MergeNegativeNumbers ==
    /\ pass_pc = "input"
    /\ pass_out' = merge_negative_numbers(pass_in)
    /\ pass_pc' = "merged"
    /\ UNCHANGED <<pass_in, symVars, ghostVars, visVars, dfaVars, lexVars, parVars,
                   semVars, runVars>>

FixCharLiterals ==
    /\ pass_pc = "merged"
    /\ pass_out' = fix_char_literals(pass_out)
    /\ pass_pc' = "fixed"
    /\ UNCHANGED <<pass_in, symVars, ghostVars, visVars, dfaVars, lexVars, parVars,
                   semVars, runVars>>

PassIdle ==
    /\ pass_in = <<>>
    /\ pass_out = <<>>
    /\ pass_pc = "new"


\* ----------------------------------------------------------------- Parser
\* None for a token and for the value argument of expect and match.
NoToken == <<>>

NoValue == "None"

\* What a parsing method leaves: the cursor, the exception raised ("none"
\* when it returned) with the token it carries, and the value returned.
R(i, err, tok, ret) == [i |-> i, err |-> err, tok |-> tok, ret |-> ret]

\* self.current_token while self.current_index is i.
Cur(toks, i) == IF i < Len(toks) THEN toks[i + 1] ELSE NoToken

\* peek(offset)
peek(toks, i, offset) ==
    IF 0 <= i + offset /\ i + offset < Len(toks) THEN toks[i + offset + 1] ELSE NoToken

match(toks, i, token_type, value) ==
    /\ Cur(toks, i) # NoToken
    /\ Cur(toks, i).type = token_type
    /\ value = NoValue \/ StrLower(Cur(toks, i).value) = StrLower(value)

\* Parser.advance()
Parser_advance(toks, i) ==
    IF Cur(toks, i) = NoToken THEN R(i, "UnexpectedEOFError", NoToken, <<>>)
    ELSE R(i + 1, "none", NoToken, Cur(toks, i))

\* expect moving the cursor before it raises on a token that does not match:
\* the variant C14 is tried against.
expect_then_advance(toks, i, token_type, value) ==
    IF Cur(toks, i) = NoToken THEN R(i, "UnexpectedEOFError", NoToken, <<>>)
    ELSE IF Cur(toks, i).type # token_type
            \/ (value # NoValue /\ StrLower(Cur(toks, i).value) # StrLower(value))
    THEN R(i + 1, "UnexpectedTokenError", Cur(toks, i), <<>>)
    ELSE Parser_advance(toks, i)

expect(toks, i, token_type, value) ==
    IF Cur(toks, i) = NoToken THEN R(i, "UnexpectedEOFError", NoToken, <<>>)
    ELSE IF Cur(toks, i).type # token_type
    THEN R(i, "UnexpectedTokenError", Cur(toks, i), <<>>)
    ELSE IF value # NoValue /\ StrLower(Cur(toks, i).value) # StrLower(value)
    THEN R(i, "UnexpectedTokenError", Cur(toks, i), <<>>)
    ELSE Parser_advance(toks, i)

\* error(message): SyntaxError(message, self.current_token)
error(toks, i) == R(i, "SyntaxError", Cur(toks, i), <<>>)


\* A method that returned ret with the cursor at i.
Ok(i, ret) == R(i, "none", NoToken, ret)

\* self.current_token.type read while current_token is None.
AttributeError(i) == R(i, "AttributeError", NoToken, <<>>)

\* One call in the body of a method: what it raised leaves the method, what
\* it returned goes to the rest of the body.
Bind(r, Rest(_)) == IF r.err # "none" THEN r ELSE Rest(r)

RECURSIVE parse_statement(_, _), parse_expression(_, _), parse_factor(_, _)

\* parse_parameter_list: expression (COMMA expression)*
RECURSIVE ParameterLoop(_, _, _)
ParameterLoop(toks, i, parameters) ==
    Bind(parse_expression(toks, i), LAMBDA e :
        IF match(toks, e.i, "COMMA", NoValue)
        THEN ParameterLoop(toks, e.i + 1, Append(parameters, e.ret))
        ELSE Ok(e.i, Append(parameters, e.ret)))

parse_parameter_list(toks, i) == ParameterLoop(toks, i, <<>>)

\* The arguments in parentheses of parse_procedure_call (lines 827-831) and
\* parse_function_call (lines 1043-1049), the cursor after LPARENTHESIS.
Arguments(toks, i) ==
    Bind(IF match(toks, i, "RPARENTHESIS", NoValue) THEN Ok(i, <<>>)
         ELSE parse_parameter_list(toks, i), LAMBDA a :
    Bind(expect(toks, a.i, "RPARENTHESIS", NoValue), LAMBDA c :
        Ok(c.i, a.ret)))

parse_function_call(toks, i) ==
    Bind(expect(toks, i, "IDENTIFIER", NoValue), LAMBDA n :
    Bind(expect(toks, n.i, "LPARENTHESIS", NoValue), LAMBDA l :
    Bind(Arguments(toks, l.i), LAMBDA a :
        Ok(a.i, [node |-> "FunctionCall", name |-> n.ret.value,
                 arguments |-> a.ret]))))

parse_procedure_call(toks, i) ==
    Bind(expect(toks, i, "IDENTIFIER", NoValue), LAMBDA n :
    Bind(IF match(toks, n.i, "LPARENTHESIS", NoValue)
         THEN Arguments(toks, n.i + 1) ELSE Ok(n.i, <<>>), LAMBDA a :
        Ok(a.i, [node |-> "ProcedureCall", name |-> n.ret.value,
                 arguments |-> a.ret])))

Variable(name, index, field) ==
    [node |-> "Variable", name |-> name, index |-> index, field |-> field]

\* parse_variable: it returns right after RBRACKET, and looks for DOT only
\* when there is no LBRACKET.  index = None is <<>>, field = None is NoValue.
parse_variable(toks, i) ==
    Bind(expect(toks, i, "IDENTIFIER", NoValue), LAMBDA n :
        IF match(toks, n.i, "LBRACKET", NoValue)
        THEN Bind(parse_expression(toks, n.i + 1), LAMBDA e :
             Bind(expect(toks, e.i, "RBRACKET", NoValue), LAMBDA c :
                 Ok(c.i, Variable(n.ret.value, e.ret, NoValue))))
        ELSE IF match(toks, n.i, "DOT", NoValue)
        THEN Bind(expect(toks, n.i + 1, "IDENTIFIER", NoValue), LAMBDA f :
                 Ok(f.i, Variable(n.ret.value, <<>>, f.ret.value)))
        ELSE Ok(n.i, Variable(n.ret.value, <<>>, NoValue)))

\* int(token.value), and float(token.value) where int raises ValueError: the
\* Python value of a numeral, as its type and its text.  Of the numerals used
\* here the ones without a fraction are the ones int accepts.
number_value(text) ==
    [type |-> IF text \in {"1", "2", "-1"} THEN "int" ELSE "float", text |-> text]

Number(value) == [node |-> "Number", value |-> value]

parse_factor(toks, i) ==
    IF match(toks, i, "NUMBER", NoValue)
    THEN Ok(i + 1, Number(number_value(Cur(toks, i).value)))
    ELSE IF match(toks, i, "STRING_LITERAL", NoValue)
    THEN Ok(i + 1, [node |-> "String", value |-> Cur(toks, i).value])
    ELSE IF match(toks, i, "CHAR_LITERAL", NoValue)
    THEN Ok(i + 1, [node |-> "Char", value |-> Cur(toks, i).value])
    ELSE IF match(toks, i, "LPARENTHESIS", NoValue)
    THEN Bind(parse_expression(toks, i + 1), LAMBDA e :
         Bind(expect(toks, e.i, "RPARENTHESIS", NoValue), LAMBDA c :
             Ok(c.i, e.ret)))
    ELSE IF match(toks, i, "LOGICAL_OPERATOR", "tidak")
    THEN Bind(parse_factor(toks, i + 1), LAMBDA o :
             Ok(o.i, [node |-> "UnaryOp", operator |-> "tidak", operand |-> o.ret]))
    ELSE IF match(toks, i, "IDENTIFIER", NoValue)
    THEN IF StrLower(Cur(toks, i).value) \in {"true", "false"}
         THEN Ok(i + 1, [node |-> "Boolean",
                         value |-> StrLower(Cur(toks, i).value) = "true"])
         ELSE IF peek(toks, i, 1) # NoToken /\ peek(toks, i, 1).type = "LPARENTHESIS"
         THEN parse_function_call(toks, i)
         ELSE parse_variable(toks, i)
    ELSE IF Cur(toks, i) = NoToken THEN AttributeError(i)
    ELSE error(toks, i)

BinaryOp(left, operator, right) ==
    [node |-> "BinaryOp", left |-> left, operator |-> operator, right |-> right]

\* The condition of the while of parse_term (lines 926-930): "a and b or c"
\* reads current_token.type in c when current_token is None.
MultiplicativeAhead(tok) ==
    \/ tok.type = "ARITHMETIC_OPERATOR" /\ tok.value \in {"*", "/", "bagi", "mod"}
    \/ tok.type = "LOGICAL_OPERATOR" /\ StrLower(tok.value) = "dan"

RECURSIVE TermLoop(_, _, _)
TermLoop(toks, i, left) ==
    IF Cur(toks, i) = NoToken THEN AttributeError(i)
    ELSE IF MultiplicativeAhead(Cur(toks, i))
    THEN Bind(parse_factor(toks, i + 1), LAMBDA right :
             TermLoop(toks, right.i, BinaryOp(left, Cur(toks, i).value, right.ret)))
    ELSE Ok(i, left)

parse_term(toks, i) ==
    Bind(parse_factor(toks, i), LAMBDA left : TermLoop(toks, left.i, left.ret))

\* The condition of the while of parse_simple_expression (lines 902-906).
AdditiveAhead(tok) ==
    \/ tok.type = "ARITHMETIC_OPERATOR" /\ tok.value \in {"+", "-"}
    \/ tok.type = "LOGICAL_OPERATOR" /\ StrLower(tok.value) = "atau"

RECURSIVE SimpleExpressionLoop(_, _, _)
SimpleExpressionLoop(toks, i, left) ==
    IF Cur(toks, i) = NoToken THEN AttributeError(i)
    ELSE IF AdditiveAhead(Cur(toks, i))
    THEN Bind(parse_term(toks, i + 1), LAMBDA right :
             SimpleExpressionLoop(toks, right.i,
                 BinaryOp(left, Cur(toks, i).value, right.ret)))
    ELSE Ok(i, left)

\* The unary sign of parse_simple_expression: the operator consumed, or
\* NoValue.
Sign(toks, i) ==
    IF match(toks, i, "ARITHMETIC_OPERATOR", NoValue) /\ Cur(toks, i).value \in {"+", "-"}
    THEN Cur(toks, i).value ELSE NoValue

parse_simple_expression(toks, i) ==
    Bind(parse_term(toks, IF Sign(toks, i) # NoValue THEN i + 1 ELSE i), LAMBDA left :
        SimpleExpressionLoop(toks, left.i,
            IF Sign(toks, i) # NoValue
            THEN [node |-> "UnaryOp", operator |-> Sign(toks, i), operand |-> left.ret]
            ELSE left.ret))

parse_expression(toks, i) ==
    Bind(parse_simple_expression(toks, i), LAMBDA left :
        IF Cur(toks, left.i) # NoToken /\ Cur(toks, left.i).type = "RELATIONAL_OPERATOR"
        THEN Bind(parse_simple_expression(toks, left.i + 1), LAMBDA right :
                 Ok(right.i, BinaryOp(left.ret, Cur(toks, left.i).value, right.ret)))
        ELSE left)

parse_assignment_statement(toks, i) ==
    Bind(parse_variable(toks, i), LAMBDA v :
    Bind(expect(toks, v.i, "ASSIGN_OPERATOR", NoValue), LAMBDA a :
    Bind(parse_expression(toks, a.i), LAMBDA e :
        Ok(e.i, [node |-> "AssignmentStatement", variable |-> v.ret,
                 expression |-> e.ret]))))

\* "if stmt: statements.append(stmt)"; a statement of <<>> is None.
Appended(statements, stmt) ==
    IF stmt # <<>> THEN Append(statements, stmt) ELSE statements

\* The while of parse_statement_list.
RECURSIVE StatementLoop(_, _, _)
StatementLoop(toks, i, statements) ==
    IF ~match(toks, i, "SEMICOLON", NoValue) THEN Ok(i, statements)
    ELSE IF \/ match(toks, i + 1, "KEYWORD", "selesai")
            \/ match(toks, i + 1, "KEYWORD", "sampai")
    THEN Ok(i + 1, statements)
    ELSE Bind(parse_statement(toks, i + 1), LAMBDA stmt :
             StatementLoop(toks, stmt.i, Appended(statements, stmt.ret)))

parse_statement_list(toks, i) ==
    Bind(parse_statement(toks, i), LAMBDA stmt :
        StatementLoop(toks, stmt.i, Appended(<<>>, stmt.ret)))

parse_compound_statement(toks, i) ==
    Bind(expect(toks, i, "KEYWORD", "mulai"), LAMBDA b :
    Bind(parse_statement_list(toks, b.i), LAMBDA l :
    Bind(expect(toks, l.i, "KEYWORD", "selesai"), LAMBDA e :
        Ok(e.i, [node |-> "CompoundStatement", statements |-> l.ret]))))

\* A statement of <<>> (None) is stored as it comes.
parse_if_statement(toks, i) ==
    Bind(expect(toks, i, "KEYWORD", "jika"), LAMBDA k :
    Bind(parse_expression(toks, k.i), LAMBDA condition :
    Bind(expect(toks, condition.i, "KEYWORD", "maka"), LAMBDA m :
    Bind(parse_statement(toks, m.i), LAMBDA then_statement :
    Bind(IF match(toks, then_statement.i, "KEYWORD", "selain-itu")
         THEN parse_statement(toks, then_statement.i + 1)
         ELSE Ok(then_statement.i, <<>>), LAMBDA else_statement :
        Ok(else_statement.i,
           [node |-> "IfStatement", condition |-> condition.ret,
            then_statement |-> then_statement.ret,
            else_statement |-> else_statement.ret]))))))

parse_while_statement(toks, i) ==
    Bind(expect(toks, i, "KEYWORD", "selama"), LAMBDA k :
    Bind(parse_expression(toks, k.i), LAMBDA condition :
    Bind(expect(toks, condition.i, "KEYWORD", "lakukan"), LAMBDA d :
    Bind(parse_statement(toks, d.i), LAMBDA body :
        Ok(body.i, [node |-> "WhileStatement", condition |-> condition.ret,
                    body |-> body.ret])))))

parse_for_statement(toks, i) ==
    Bind(expect(toks, i, "KEYWORD", "untuk"), LAMBDA k :
    Bind(expect(toks, k.i, "IDENTIFIER", NoValue), LAMBDA variable :
    Bind(expect(toks, variable.i, "ASSIGN_OPERATOR", NoValue), LAMBDA a :
    Bind(parse_expression(toks, a.i), LAMBDA start_expr :
    Bind(IF match(toks, start_expr.i, "KEYWORD", "ke")
         THEN Ok(start_expr.i + 1, "ke")
         ELSE IF match(toks, start_expr.i, "KEYWORD", "turun-ke")
         THEN Ok(start_expr.i + 1, "turun-ke")
         ELSE error(toks, start_expr.i), LAMBDA direction :
    Bind(parse_expression(toks, direction.i), LAMBDA end_expr :
    Bind(expect(toks, end_expr.i, "KEYWORD", "lakukan"), LAMBDA d :
    Bind(parse_statement(toks, d.i), LAMBDA body :
        Ok(body.i, [node |-> "ForStatement", variable |-> variable.ret.value,
                    start_expr |-> start_expr.ret, end_expr |-> end_expr.ret,
                    direction |-> direction.ret, body |-> body.ret])))))))))

\* parse_statement on token lists without the keywords ulangi and kasus: the
\* branches of lines 640-643 are never taken on them.
parse_statement(toks, i) ==
    IF match(toks, i, "KEYWORD", "mulai") THEN parse_compound_statement(toks, i)
    ELSE IF match(toks, i, "KEYWORD", "jika") THEN parse_if_statement(toks, i)
    ELSE IF match(toks, i, "KEYWORD", "selama") THEN parse_while_statement(toks, i)
    ELSE IF match(toks, i, "KEYWORD", "untuk") THEN parse_for_statement(toks, i)
    ELSE IF match(toks, i, "IDENTIFIER", NoValue)
    THEN IF peek(toks, i, 1) # NoToken
            /\ peek(toks, i, 1).type \in {"ASSIGN_OPERATOR", "LBRACKET", "DOT"}
         THEN parse_assignment_statement(toks, i)
         ELSE parse_procedure_call(toks, i)
    ELSE Ok(i, <<>>)

\* parse_declaration_part on token lists without the keywords konstanta, tipe,
\* variabel, prosedur and fungsi: none of its four loops is entered.
parse_declaration_part(toks, i) == Ok(i, <<>>)

parse_block(toks, i) ==
    Bind(parse_declaration_part(toks, i), LAMBDA d :
    Bind(parse_compound_statement(toks, d.i), LAMBDA c :
        Ok(c.i, [node |-> "Block", declarations |-> d.ret,
                 compound_statement |-> c.ret])))

parse_program(toks, i) ==
    Bind(expect(toks, i, "KEYWORD", "program"), LAMBDA k :
    Bind(expect(toks, k.i, "IDENTIFIER", NoValue), LAMBDA n :
    Bind(expect(toks, n.i, "SEMICOLON", NoValue), LAMBDA s :
    Bind(parse_block(toks, s.i), LAMBDA b :
    Bind(expect(toks, b.i, "DOT", NoValue), LAMBDA d :
        Ok(d.i, [node |-> "Program", name |-> n.ret.value, block |-> b.ret]))))))

\* parse without its test for remaining tokens.
parse_ignoring_rest(toks, i) == parse_program(toks, i)

parse(toks, i) ==
    Bind(parse_program(toks, i), LAMBDA program_node :
        IF Cur(toks, program_node.i) # NoToken THEN error(toks, program_node.i)
        ELSE program_node)

\* The parser's fields after a call that left the cursor at i.
SetCursor(i) ==
    /\ current_index' = i
    /\ current_token' = Cur(par_tokens, i)
    /\ UNCHANGED par_tokens

ParCall(op, token_type, value, index) ==
    [op |-> op, token_type |-> token_type, value |-> value, index |-> index]

ParErr(r) == [kind |-> r.err, token |-> r.tok]

Match(token_type, value) ==
    /\ par_ret' = match(par_tokens, current_index, token_type, value)
    /\ par_err' = ParErr(R(current_index, "none", NoToken, <<>>))
    /\ g_par' = ParCall("match", token_type, value, current_index)
    /\ UNCHANGED <<par_tokens, current_index, current_token>>
    /\ UNCHANGED <<symVars, ghostVars, visVars, dfaVars, lexVars, passVars, semVars, runVars>>

\* A call that moves the cursor has returned or raised: r.
Returns(r, call) ==
    /\ SetCursor(r.i)
    /\ par_ret' = r.ret
    /\ par_err' = ParErr(r)
    /\ g_par' = call
    /\ UNCHANGED <<symVars, ghostVars, visVars, dfaVars, lexVars, passVars, semVars, runVars>>

Expect(token_type, value) ==
    Returns(expect(par_tokens, current_index, token_type, value),
            ParCall("expect", token_type, value, current_index))

Advance ==
    Returns(Parser_advance(par_tokens, current_index),
            ParCall("advance", NoValue, NoValue, current_index))

\* Parser.parse(): the tree it returns or the error it raises, with the cursor
\* where the call left it.
Parse ==
    Returns(parse(par_tokens, current_index),
            ParCall("parse", NoValue, NoValue, current_index))

ParserIdle ==
    /\ par_tokens = <<>>
    /\ current_index = 0
    /\ current_token = NoToken
    /\ par_ret = <<>>
    /\ par_err = ParErr(R(0, "none", NoToken, <<>>))
    /\ g_par = ParCall("new", NoValue, NoValue, 0)

SemIdle ==
    /\ sem_ret = <<>>
    /\ sem_err = "none"
    /\ g_sem = [op |-> "new"]


\* ------------------------------------------- types of arrays and records
is_simple(t) == t.array_info = <<>> /\ t.record_info = <<>>

is_array(t) == t.array_info # <<>>

is_record(t) == t.record_info # <<>>

is_ordinal(t) == t.kind \in {"INTEGER", "BOOLEAN", "CHAR"}

is_numeric(t) == t.kind \in {"INTEGER", "REAL"}

RECURSIVE compatible_with(_, _)
compatible_with(self, other) ==
    IF self.kind = other.kind /\ is_simple(self) THEN TRUE
    ELSE IF self.kind = other.kind /\ is_array(self) /\ is_array(other)
    THEN compatible_with(self.array_info.element_type, other.array_info.element_type)
    ELSE self.kind = "REAL" /\ other.kind = "INTEGER"

get_type_size(t) ==
    IF is_array(t) THEN t.array_info.size
    ELSE IF is_record(t) THEN t.record_info.size
    ELSE 1

\* The Type visit_array_type returns for "larik [low .. high] dari
\* element_type": the kind tag is INTEGER.
array_type(element_type, low, high) ==
    [kind |-> "INTEGER",
     array_info |-> [index_type |-> INTEGER_TYPE, element_type |-> element_type,
                     low |-> low, high |-> high,
                     element_size |-> get_type_size(element_type),
                     size |-> (high - low + 1) * get_type_size(element_type),
                     ref_index |-> None],
     record_info |-> <<>>]

\* The fields dictionary visit_record_type builds from declarations
\* <<field_name, field_type>>: a sequence of <<name, type, offset>>.
RECURSIVE record_fields(_, _, _)
record_fields(decls, fields, offset) ==
    IF decls = <<>> THEN fields
    ELSE record_fields(Tail(decls),
                       Append(fields, <<Head(decls)[1], Head(decls)[2], offset>>),
                       offset + get_type_size(Head(decls)[2]))

\* The Type visit_record_type returns: the kind tag is INTEGER too.
record_type(decls) ==
    LET fields == record_fields(decls, <<>>, 0)
    IN [kind |-> "INTEGER", array_info |-> <<>>,
        record_info |->
            [fields |-> fields,
             size |-> IF fields = <<>> THEN 0
                      ELSE fields[Len(fields)][3] + get_type_size(fields[Len(fields)][2]),
             ref_index |-> None]]

\* ------------------------------------- the visitor on statements
\* A visit that returned type, or raised err.
Typed(type, err) == [type |-> type, err |-> err]

RECURSIVE visit(_, _)

visit_variable(S, node) ==
    LET idx == lookup(S, node.name)
        var_type == S.tab[idx + 1].type
        index_type == visit(S, node.index)
        named == {k \in 1 .. Len(var_type.record_info.fields) :
                      var_type.record_info.fields[k][1] = node.field}
    IN IF idx = None THEN Typed(<<>>, "UndeclaredIdentifierError")
       ELSE IF node.index # <<>>
       THEN IF ~is_array(var_type) THEN Typed(<<>>, "InvalidArrayIndexError")
            ELSE IF index_type.err # "none" THEN index_type
            ELSE IF ~is_ordinal(index_type.type)
            THEN Typed(<<>>, "InvalidArrayIndexError")
            ELSE Typed(var_type.array_info.element_type, "none")
       ELSE IF node.field # NoValue
       THEN IF ~is_record(var_type) THEN Typed(<<>>, "InvalidRecordAccessError")
            ELSE IF named = {} THEN Typed(<<>>, "InvalidRecordAccessError")
            ELSE Typed(var_type.record_info.fields[CHOOSE k \in named : TRUE][2], "none")
       ELSE Typed(var_type, "none")

visit_number(node) ==
    Typed(IF node.value.type = "int" THEN INTEGER_TYPE ELSE REAL_TYPE, "none")

\* visit_binary_op; "==" on two Types compares their kinds.
visit_binary_op(S, node) ==
    LET left_type == visit(S, node.left)
        right_type == visit(S, node.right)
        op == node.operator
    IN IF left_type.err # "none" THEN left_type
       ELSE IF right_type.err # "none" THEN right_type
       ELSE IF op \in {"+", "-", "*", "/"}
       THEN IF ~is_numeric(left_type.type) \/ ~is_numeric(right_type.type)
            THEN Typed(<<>>, "InvalidOperationError")
            ELSE IF left_type.type.kind = "REAL" \/ right_type.type.kind = "REAL"
            THEN Typed(REAL_TYPE, "none")
            ELSE Typed(INTEGER_TYPE, "none")
       ELSE IF op \in {"div", "mod", "bagi"}
       THEN IF left_type.type.kind # "INTEGER" \/ right_type.type.kind # "INTEGER"
            THEN Typed(<<>>, "InvalidOperationError")
            ELSE Typed(INTEGER_TYPE, "none")
       ELSE IF op \in {"and", "or", "dan", "atau"}
       THEN IF left_type.type.kind # "BOOLEAN" \/ right_type.type.kind # "BOOLEAN"
            THEN Typed(<<>>, "InvalidOperationError")
            ELSE Typed(BOOLEAN_TYPE, "none")
       ELSE IF op \in {"=", "<>", "<", "<=", ">", ">="}
       THEN IF ~compatible_with(left_type.type, right_type.type)
            THEN Typed(<<>>, "TypeMismatchError")
            ELSE Typed(BOOLEAN_TYPE, "none")
       ELSE Typed(<<>>, "InvalidOperationError")

visit_unary_op(S, node) ==
    LET operand_type == visit(S, node.operand)
    IN IF operand_type.err # "none" THEN operand_type
       ELSE IF node.operator \in {"+", "-"}
       THEN IF ~is_numeric(operand_type.type)
            THEN Typed(<<>>, "InvalidOperationError")
            ELSE operand_type
       ELSE IF node.operator = "not"
       THEN IF operand_type.type.kind # "BOOLEAN"
            THEN Typed(<<>>, "InvalidOperationError")
            ELSE Typed(BOOLEAN_TYPE, "none")
       ELSE Typed(<<>>, "InvalidOperationError")

\* node.accept(visitor) for the expressions.
visit(S, node) ==
    CASE node.node = "Number" -> visit_number(node)
      [] node.node = "BinaryOp" -> visit_binary_op(S, node)
      [] node.node = "UnaryOp" -> visit_unary_op(S, node)
      [] node.node = "String" -> Typed(STRING_TYPE, "none")
      [] node.node = "Char" -> Typed(CHAR_TYPE, "none")
      [] node.node = "Boolean" -> Typed(BOOLEAN_TYPE, "none")
      [] node.node = "Variable" -> visit_variable(S, node)

\* visit_assignment_statement asking the expression's type to accept the
\* variable's.
visit_assignment_statement_swapped(S, node) ==
    LET var_type == visit(S, node.variable)
        expr_type == visit(S, node.expression)
    IN IF var_type.err # "none" THEN var_type.err
       ELSE IF expr_type.err # "none" THEN expr_type.err
       ELSE IF ~compatible_with(expr_type.type, var_type.type) THEN "TypeMismatchError"
       ELSE "none"

\* visit_assignment_statement: the error it raises, "none" when it returns.
visit_assignment_statement(S, node) ==
    LET var_type == visit(S, node.variable)
        expr_type == visit(S, node.expression)
    IN IF var_type.err # "none" THEN var_type.err
       ELSE IF expr_type.err # "none" THEN expr_type.err
       ELSE IF ~compatible_with(var_type.type, expr_type.type) THEN "TypeMismatchError"
       ELSE "none"

\* Type.compatible_with called on two types.
CompatibleWith(self, other) ==
    /\ sem_ret' = compatible_with(self, other)
    /\ sem_err' = "none"
    /\ g_sem' = [op |-> "compatible_with", self |-> self, other |-> other]
    /\ UNCHANGED <<symVars, ghostVars, visVars, dfaVars, lexVars, passVars, parVars,
                   runVars>>

\* SemanticVisitor.visit_assignment_statement(node); it returns node.
VisitAssignmentStatement(node) ==
    LET err == visit_assignment_statement(ST, node)
    IN /\ sem_err' = err
       /\ sem_ret' = IF err = "none" THEN node ELSE <<>>
       /\ g_sem' = [op |-> "visit_assignment_statement", node |-> node]
       /\ UNCHANGED <<symVars, ghostVars, visVars, dfaVars, lexVars, passVars, parVars,
                      runVars>>

\* visit_variable on what parse_variable returned for the tokens toks.
Resolved(toks, parsed, typed) ==
    /\ sem_err' = IF parsed.err # "none" THEN parsed.err ELSE typed.err
    /\ sem_ret' = IF parsed.err # "none" THEN <<>> ELSE typed.type
    /\ g_sem' = [op |-> "access", tokens |-> toks, parsed |-> parsed.i]
    /\ UNCHANGED <<symVars, ghostVars, visVars, dfaVars, lexVars, passVars, parVars,
                   runVars>>

\* The access written as the tokens toks, from the parser to the visitor:
\* parse_variable on a parser of toks, then visit_variable on the node.
ResolveAccess(toks) ==
    Resolved(toks, parse_variable(toks, 0),
             Bind(parse_variable(toks, 0), LAMBDA parsed :
                 visit_variable(ST, parsed.ret)))

\* visit on what parse_expression returned for the tokens toks.
Evaluated(toks, parsed, typed) ==
    /\ sem_err' = IF parsed.err # "none" THEN parsed.err ELSE typed.err
    /\ sem_ret' = IF parsed.err # "none" THEN <<>> ELSE typed.type
    /\ g_sem' = [op |-> "expression", tokens |-> toks, node |-> parsed.ret]
    /\ UNCHANGED <<symVars, ghostVars, visVars, dfaVars, lexVars, passVars, parVars,
                   runVars>>

\* The expression written as the tokens toks, from the parser to the
\* visitor: parse_expression on a parser of toks, then visit on the node.
VisitExpression(toks) ==
    Evaluated(toks, parse_expression(toks, 0),
              Bind(parse_expression(toks, 0), LAMBDA parsed :
                  visit(ST, parsed.ret)))

\* ------------------------------------------------- validate_ast_contract
\* The dataclass fields of a node that hold a child node and have no
\* default, in the order of the class.
RequiredChildren(node) ==
    CASE node.node = "Program" -> <<node.block>>
      [] node.node = "Block" -> <<node.compound_statement>>
      [] node.node = "AssignmentStatement" -> <<node.variable, node.expression>>
      [] node.node = "IfStatement" -> <<node.condition, node.then_statement>>
      [] node.node = "WhileStatement" -> <<node.condition, node.body>>
      [] node.node = "ForStatement" -> <<node.start_expr, node.end_expr, node.body>>
      [] node.node = "BinaryOp" -> <<node.left, node.right>>
      [] node.node = "UnaryOp" -> <<node.operand>>
      [] OTHER -> <<>>

\* The fields with the default None that hold a node.
OptionalChildren(node) ==
    CASE node.node = "IfStatement" -> <<node.else_statement>>
      [] node.node = "Variable" -> <<node.index>>
      [] OTHER -> <<>>

\* The fields that hold a list of nodes.
ListChildren(node) ==
    CASE node.node = "Block" -> node.declarations
      [] node.node = "CompoundStatement" -> node.statements
      [] node.node \in {"ProcedureCall", "FunctionCall"} -> node.arguments
      [] OTHER -> <<>>

\* "Required fields should not be None" and "No None inside lists".
MissingRequired(node) ==
    \/ \E k \in 1 .. Len(RequiredChildren(node)) : RequiredChildren(node)[k] = <<>>
    \/ \E k \in 1 .. Len(ListChildren(node)) : ListChildren(node)[k] = <<>>

\* The nodes the field loop pushes, in push order.
Pushed(node) ==
    SelectSeq(RequiredChildren(node) \o OptionalChildren(node), LAMBDA c : c # <<>>)
        \o ListChildren(node)

\* The loop "while stack": the node on top is checked, its children are
\* pushed, then its class-specific invariants are checked; for a Variable
\* they read node.indices, which the class does not have.
RECURSIVE ContractLoop(_)
ContractLoop(stack) ==
    IF stack = <<>> THEN "none"
    ELSE IF MissingRequired(stack[Len(stack)]) THEN "ASTContractError"
    ELSE IF stack[Len(stack)].node = "Variable" THEN "AttributeError"
    ELSE ContractLoop(SubSeq(stack, 1, Len(stack) - 1) \o Pushed(stack[Len(stack)]))

\* validate_ast_contract(root) with strict = True: the exception it raises,
\* "none" when it returns.
validate_ast_contract(root) == ContractLoop(<<root>>)

\* validate_ast_contract on the tree Parser.parse returned.
ValidateAstContract ==
    /\ g_par.op = "parse"
    /\ par_err.kind = "none"
    /\ sem_err' = validate_ast_contract(par_ret)
    /\ sem_ret' = <<>>
    /\ g_sem' = [op |-> "validate_ast_contract"]
    /\ UNCHANGED <<symVars, ghostVars, visVars, dfaVars, lexVars, passVars, parVars,
                   runVars>>

\* ------------------------------------------ the table under deep nesting
\* The same three operations with variables only, and enter_array, called
\* to a nesting depth that uses every slot of display.
EnterVariable(name) ==
    /\ sym_err = "none"
    /\ tx + 1 < MaxVars
    /\ SetST(enter(ST, name, "VARIABLE", INTEGER_TYPE, None, 0, None))
    /\ sym_err' = "none"
    /\ g_owner' = Append(g_owner, Owner(g_open[level + 1], name, "VARIABLE", FALSE))
    /\ g_last' = Last("enter", None, tx, FALSE, 1)
    /\ UNCHANGED <<g_open, g_count>>
    /\ UNCHANGED <<visVars, dfaVars, lexVars, passVars, parVars, semVars, runVars>>

EnterArray ==
    /\ sym_err = "none"
    /\ ax + 1 < MaxArrays
    /\ SetST(enter_array(ST, INTEGER_TYPE, REAL_TYPE, 1, 2, 1))
    /\ sym_err' = "none"
    /\ g_last' = Last("enter_array", None, tx, FALSE, 0)
    /\ UNCHANGED <<g_owner, g_open, g_count>>
    /\ UNCHANGED <<visVars, dfaVars, lexVars, passVars, parVars, semVars, runVars>>

NestScope ==
    /\ sym_err = "none"
    /\ bx < MaxDepth
    /\ SetST(enter_scope(ST))
    /\ sym_err' = IF EnterScopeRaises(ST) THEN "IndexError" ELSE "none"
    /\ g_count' = g_count + 1
    /\ g_open' = Append(g_open, g_count + 1)
    /\ g_last' = Last("enter_scope", g_count + 1, tx, FALSE, 0)
    /\ UNCHANGED g_owner
    /\ UNCHANGED <<visVars, dfaVars, lexVars, passVars, parVars, semVars, runVars>>

\* bx - level is the number of scopes left so far.
LeaveScope ==
    /\ sym_err = "none"
    /\ bx - level < MaxExits
    /\ SetST(exit_scope(ST))
    /\ sym_err' = "none"
    /\ g_open' = IF level > 0 THEN SubSeq(g_open, 1, Len(g_open) - 1) ELSE g_open
    /\ g_last' = Last("exit_scope", IF level > 0 THEN g_open[Len(g_open)] ELSE None,
                      tx, FALSE, 0)
    /\ UNCHANGED <<g_owner, g_count>>
    /\ UNCHANGED <<visVars, dfaVars, lexVars, passVars, parVars, semVars, runVars>>

\* ------------------------------------------------------- Specifications
TableIdle ==
    /\ InitST(SymbolTableInit)
    /\ sym_err = "none"
    /\ g_owner = <<>>
    /\ g_open = <<0>>
    /\ g_count = 0
    /\ g_last = Last("init", None, -1, FALSE, 0)

\* SymbolTable(): the table on its own.
InitTab ==
    /\ TableIdle
    /\ VisitorIdle
    /\ DfaIdle
    /\ LexerIdle
    /\ PassIdle
    /\ ParserIdle
    /\ SemIdle
    /\ RunIdle

NextTab ==
    \/ \E name \in Names, obj_kind \in ObjectKinds, lvl \in {None} \cup (0 .. MaxBlocks - 1) :
           Enter(name, obj_kind, lvl)
    \/ EnterScope
    \/ ExitScope

SpecTab == InitTab /\ [][NextTab]_vars

\* SemanticVisitor(): a fresh table with the builtins in it.
InitVis ==
    /\ InitST(init_builtins(SymbolTableInit, Builtins))
    /\ sym_err = "none"
    /\ g_owner = [k \in 1 .. Len(Builtins) |-> Owner(0, Builtins[k][1], Builtins[k][2], TRUE)]
    /\ g_open = <<0>>
    /\ g_count = 0
    /\ g_last = Last("init", None, -1, FALSE, 0)
    /\ vis_pc = "new"
    /\ vis_err = "none"
    /\ vis_stack = <<>>
    /\ type_map = TypeMapInit
    /\ current_function_type = <<>>
    /\ DfaIdle
    /\ LexerIdle
    /\ PassIdle
    /\ ParserIdle
    /\ SemIdle
    /\ RunIdle

NextVis ==
    \/ \E name \in {"p"} : VisitProgram(name)
    \/ \E identifier \in Names, shape \in {"int"} :
           VisitConstDeclaration(identifier, shape)
    \/ \E identifier \in Names, type_name \in TypeNames :
           VisitTypeDeclaration(identifier, type_name)
    \/ \E identifiers \in IdentifierLists, type_name \in TypeNames :
           VisitVarDeclaration(identifiers, type_name)
    \/ \E identifiers \in IdentifierLists, type_name \in TypeNames :
           VisitParameter(identifiers, type_name)
    \/ \E name \in Names : VisitProcedureDeclaration(name)
    \/ \E name \in Names, type_name \in TypeNames :
           VisitFunctionDeclaration(name, type_name)
    \/ ReturnFromSubprogram
    \/ ReturnFromProgram

SpecVis == InitVis /\ [][NextVis]_vars

\* DFA(config): the automaton in its start state.
InitDfa ==
    /\ DfaIdle
    /\ TableIdle
    /\ VisitorIdle
    /\ LexerIdle
    /\ PassIdle
    /\ ParserIdle
    /\ SemIdle
    /\ RunIdle

NextDfa ==
    \/ DfaReset
    \/ \E char \in Chars : DfaStep(char)
    \/ \E char \in Chars : DfaCanTransition(char)

SpecDfa == InitDfa /\ [][NextDfa]_vars

\* The sources tokenize is run on: every text of at most MaxLen characters
\* over SourceChars, and every text of at most MaxWords of the Words.
MaxLen == 4

MaxWords == 3

SourceChars == {"a", "1", ".", "-", " ", "'", "\n", "@"}

Words ==
    {<<"k", "e">>, <<"K", "E">>, <<"d", "a", "n">>, <<"D", "a", "n">>,
     <<"m", "o", "d">>, <<"M", "O", "D">>, <<"a">>, <<"1">>, <<" ">>}

SeqsUpTo(S, n) == UNION {[1 .. k -> S] : k \in 0 .. n}

RECURSIVE Flatten(_)
Flatten(ws) == IF ws = <<>> THEN <<>> ELSE Head(ws) \o Flatten(Tail(ws))

Sources ==
    SeqsUpTo(SourceChars, MaxLen) \cup {Flatten(ws) : ws \in SeqsUpTo(Words, MaxWords)}

\* Lexer.tokenize(source_code) on a newly constructed lexer: the reader at
\* offset 0 of the source and an empty token list.
InitLex ==
    /\ source_code \in Sources
    /\ reader = Reader(source_code)
    /\ tokens = <<>>
    /\ lex_pc = "scan"
    /\ lex_err = "none"
    /\ g_scan = <<>>
    /\ DfaIdle
    /\ TableIdle
    /\ VisitorIdle
    /\ PassIdle
    /\ ParserIdle
    /\ SemIdle
    /\ RunIdle

NextLex ==
    \/ ScanToken
    \/ ReturnTokens

SpecLex == InitLex /\ [][NextLex]_vars

\* The token lists the passes are called on: at most MaxToks tokens of the
\* shapes below, laid out one after the other from offset 0.
MaxToks == 4

Shapes ==
    {<<"ARITHMETIC_OPERATOR", <<"-">>>>, <<"NUMBER", <<"1">>>>,
     <<"WHITESPACE", <<" ">>>>, <<"COMMENT", <<"{", "}">>>>,
     <<"IDENTIFIER", <<"a">>>>, <<"RPARENTHESIS", <<")">>>>,
     <<"RBRACKET", <<"]">>>>, <<"ASSIGN_OPERATOR", <<":", "=">>>>,
     <<"COMMA", <<",">>>>, <<"KEYWORD", <<"k", "e">>>>,
     <<"KEYWORD", <<"T", "o">>>>, <<"STRING_LITERAL", <<"'", "a", "'">>>>}

RECURSIVE Layout(_, _)
Layout(shapes, start) ==
    IF shapes = <<>> THEN <<>>
    ELSE <<Token(Head(shapes)[1], Head(shapes)[2], start,
                 start + Len(Head(shapes)[2]))>>
             \o Layout(Tail(shapes), start + Len(Head(shapes)[2]))

InitPass ==
    /\ pass_in \in {Layout(shapes, 0) : shapes \in SeqsUpTo(Shapes, MaxToks)}
    /\ pass_out = <<>>
    /\ pass_pc = "input"
    /\ ParserIdle
    /\ SemIdle
    /\ RunIdle
    /\ DfaIdle
    /\ LexerIdle
    /\ TableIdle
    /\ VisitorIdle

NextPass ==
    \/ MergeNegativeNumbers
    \/ FixCharLiterals

SpecPass == InitPass /\ [][NextPass]_vars

\* Token lists for the parser, each token written <<type, value>>: programs
\* "program p ; mulai <statements> selesai ." around the statements below,
\* every prefix of them, each followed by up to MaxTrail more tokens, and
\* all lists of up to MaxShort tokens.  None holds a keyword that opens a
\* declaration or a structured statement.
MaxTrail == 1
MaxShort == 2

Id(name) == <<"IDENTIFIER", name>>
One == <<"NUMBER", "1">>
Becomes == <<"ASSIGN_OPERATOR", ":=">>
Semi == <<"SEMICOLON", ";">>

StatementWords ==
    {<<>>,
     <<Id("x"), Becomes, One>>,
     <<Id("x"), Becomes, Semi>>,
     <<Id("x"), Becomes, One, Semi>>,
     <<Id("x"), Becomes, One, Semi, Id("f")>>,
     <<Id("x"), Becomes, Id("a"), <<"LBRACKET", "[">>, One, <<"RBRACKET", "]">>>>,
     <<Id("x"), Becomes, Id("a"), <<"LBRACKET", "[">>, One, <<"RBRACKET", "]">>,
       <<"DOT", ".">>, Id("f")>>,
     <<Id("x"), Becomes, Id("a"), <<"DOT", ".">>, Id("f")>>,
     <<Id("a"), <<"LBRACKET", "[">>, One, <<"RBRACKET", "]">>, Becomes, One>>,
     <<Id("a"), <<"DOT", ".">>, Id("f"), Becomes, <<"CHAR_LITERAL", "'c'">>>>,
     <<Id("x"), Becomes, One, <<"ARITHMETIC_OPERATOR", "+">>, One,
       <<"ARITHMETIC_OPERATOR", "*">>, One>>,
     <<Id("x"), Becomes, <<"ARITHMETIC_OPERATOR", "-">>, One,
       <<"RELATIONAL_OPERATOR", "<">>, <<"LPARENTHESIS", "(">>, One,
       <<"RPARENTHESIS", ")">>>>,
     <<Id("x"), Becomes, <<"LOGICAL_OPERATOR", "tidak">>, Id("TRUE"),
       <<"LOGICAL_OPERATOR", "atau">>, Id("x"), <<"LOGICAL_OPERATOR", "dan">>,
       Id("x")>>,
     <<Id("x"), Becomes, Id("f"), <<"LPARENTHESIS", "(">>, <<"RPARENTHESIS", ")">>>>,
     <<Id("f"), <<"LPARENTHESIS", "(">>, One, <<"COMMA", ",">>,
       <<"STRING_LITERAL", "'ab'">>, <<"RPARENTHESIS", ")">>>>,
     <<<<"KEYWORD", "Mulai">>, Id("f"), <<"KEYWORD", "selesai">>>>}

Programs ==
    {<<<<"KEYWORD", "program">>, Id("p"), Semi, <<"KEYWORD", "mulai">>>> \o st
        \o <<<<"KEYWORD", "selesai">>, <<"DOT", ".">>>> : st \in StatementWords}

TrailWords == {Semi, <<"DOT", ".">>, Id("x"), <<"KEYWORD", "program">>}

ShortWords == TrailWords \cup {<<"KEYWORD", "mulai">>}

ParserWords ==
    UNION {{SubSeq(ws, 1, k) : k \in 0 .. Len(ws)} : ws \in Programs}
        \cup {ws \o t : ws \in Programs, t \in SeqsUpTo(TrailWords, MaxTrail)}
        \cup SeqsUpTo(ShortWords, MaxShort)

\* The k-th token of a list spans offsets k-1 .. k.
ParserTokens ==
    {[k \in 1 .. Len(ws) |-> Token(ws[k][1], ws[k][2], k - 1, k)] : ws \in ParserWords}

\* Parser(tokens): the cursor on the first token.
InitParse ==
    /\ par_tokens \in ParserTokens
    /\ current_index = 0
    /\ current_token = Cur(par_tokens, 0)
    /\ par_ret = <<>>
    /\ par_err = ParErr(R(0, "none", NoToken, <<>>))
    /\ g_par = ParCall("new", NoValue, NoValue, 0)
    /\ SemIdle
    /\ RunIdle
    /\ PassIdle
    /\ DfaIdle
    /\ LexerIdle
    /\ TableIdle
    /\ VisitorIdle

NextParse ==
    \/ \E probe \in {<<"KEYWORD", "mulai">>, <<"IDENTIFIER", NoValue>>,
                      <<"IDENTIFIER", "P">>, <<"DOT", NoValue>>} :
          \/ Match(probe[1], probe[2])
          \/ Expect(probe[1], probe[2])
    \/ Advance
    \/ Parse

SpecParse == InitParse /\ [][NextParse]_vars

\* The types of the declarations: three simple types, two record types, and
\* arrays over them nested up to MaxNest deep.
MaxNest == 1

RECURSIVE DeclaredTypes(_)
DeclaredTypes(nest) ==
    IF nest = 0
    THEN {INTEGER_TYPE, REAL_TYPE, BOOLEAN_TYPE,
          record_type(<<<<"f", REAL_TYPE>>>>),
          record_type(<<<<"g", INTEGER_TYPE>>, <<"f", BOOLEAN_TYPE>>>>)}
    ELSE DeclaredTypes(0) \cup {array_type(t, 1, 2) : t \in DeclaredTypes(nest - 1)}

\* The table after visit_program and the declarations "variabel x: type_x;
\* y: type_y", at level 0.
Declared(type_x, type_y) ==
    LET S0 == enter(init_builtins(SymbolTableInit, Builtins),
                    "p", "PROGRAM", VOID_TYPE, 0, 0, None)
    IN declare_identifiers(declare_identifiers(S0, <<"x">>, type_x).st,
                           <<"y">>, type_y).st

\* The variables of the assignments: x, x[1], x.f and the undeclared z.
VariableNodes ==
    {Variable("x", <<>>, NoValue), Variable("x", Number(number_value("1")), NoValue),
     Variable("x", <<>>, "f"), Variable("z", <<>>, NoValue)}

\* Their expressions: x, y, y[1], y.f and the literals.
ExpressionNodes ==
    {Variable("x", <<>>, NoValue), Variable("y", <<>>, NoValue),
     Variable("y", Number(number_value("1")), NoValue), Variable("y", <<>>, "f"),
     Number(number_value("1")), Number(number_value("1.5")),
     [node |-> "Boolean", value |-> TRUE]}

\* Accesses to x as token lists: x, x.f, x[i] and x[i].f with the index 1,
\* 1.5 or y.
AccessWords ==
    LET Indexed(i) == <<Id("x"), <<"LBRACKET", "[">>, i, <<"RBRACKET", "]">>>>
    IN {<<Id("x")>>, <<Id("x"), <<"DOT", ".">>, Id("f")>>}
           \cup {Indexed(i) : i \in {One, <<"NUMBER", "1.5">>, Id("y")}}
           \cup {Indexed(i) \o <<<<"DOT", ".">>, Id("f")>> :
                    i \in {One, <<"NUMBER", "1.5">>, Id("y")}}

\* Expressions over x and y as token lists, each followed by the semicolon
\* that ends its statement: "tidak e", "+ e", "- e", and "x op y" with the
\* arithmetic and the relational operators.
Arithmetic(op) == <<"ARITHMETIC_OPERATOR", op>>

ExpressionWords ==
    {<<<<"LOGICAL_OPERATOR", "tidak">>, e, Semi>> :
         e \in {Id("x"), Id("true"), One}}
      \cup {<<Arithmetic(op), Id("x"), Semi>> : op \in {"+", "-"}}
      \cup {<<Id("x"), Arithmetic(op), Id("y"), Semi>> : op \in {"+", "-", "*", "/"}}
      \cup {<<Id("x"), <<"RELATIONAL_OPERATOR", op>>, Id("y"), Semi>> :
               op \in {"=", "<>", "<", "<=", ">", ">="}}

\* The visitor after the declarations of a program whose variables are x and y.
InitSem ==
    /\ \E type_x \in DeclaredTypes(MaxNest), type_y \in DeclaredTypes(MaxNest) :
          InitST(Declared(type_x, type_y))
    /\ sym_err = "none"
    /\ g_owner = <<>>
    /\ g_open = <<0>>
    /\ g_count = 0
    /\ g_last = Last("init", None, -1, FALSE, 0)
    /\ vis_pc = "statements"
    /\ vis_err = "none"
    /\ vis_stack = <<>>
    /\ type_map = TypeMapInit
    /\ current_function_type = <<>>
    /\ SemIdle
    /\ RunIdle
    /\ ParserIdle
    /\ PassIdle
    /\ DfaIdle
    /\ LexerIdle

NextSem ==
    \/ \E j \in 1 .. Len(tab), k \in 1 .. Len(tab) :
          /\ tab[j].obj_kind = "VARIABLE"
          /\ tab[k].obj_kind = "VARIABLE"
          /\ CompatibleWith(tab[j].type, tab[k].type)
    \/ \E variable \in VariableNodes, expression \in ExpressionNodes :
          VisitAssignmentStatement([node |-> "AssignmentStatement",
                                    variable |-> variable, expression |-> expression])
    \/ \E ws \in AccessWords :
          ResolveAccess([k \in 1 .. Len(ws) |-> Token(ws[k][1], ws[k][2], k - 1, k)])
    \/ \E ws \in ExpressionWords :
          VisitExpression([k \in 1 .. Len(ws) |-> Token(ws[k][1], ws[k][2], k - 1, k)])

SpecSem == InitSem /\ [][NextSem]_vars

\* SymbolTable() under nested scopes: variables, arrays, scopes to depth
\* MaxDepth.
InitScope ==
    /\ TableIdle
    /\ VisitorIdle
    /\ DfaIdle
    /\ LexerIdle
    /\ PassIdle
    /\ ParserIdle
    /\ SemIdle
    /\ RunIdle

NextScope ==
    \/ \E name \in {"x"} : EnterVariable(name)
    \/ EnterArray
    \/ NestScope
    \/ LeaveScope

SpecScope == InitScope /\ [][NextScope]_vars

\* Programs for the contract: one if, while or for statement whose parts are
\* statements of BodyWords (the empty statement among them), alone or
\* followed by a semicolon and an assignment.
Keyword(w) == <<"KEYWORD", w>>

BodyWords ==
    {<<>>,
     <<Id("x"), Becomes, One>>,
     <<Id("f")>>,
     <<Keyword("mulai"), Keyword("selesai")>>,
     <<Keyword("selama"), Id("true"), Keyword("lakukan")>>}

HeadWords ==
    {<<Keyword("jika"), Id("true"), Keyword("maka")>>,
     <<Keyword("selama"), One, <<"RELATIONAL_OPERATOR", "<">>, One, Keyword("lakukan")>>,
     <<Keyword("untuk"), Id("x"), Becomes, One, Keyword("ke"), One, Keyword("lakukan")>>,
     <<Keyword("untuk"), Id("x"), Becomes, One, Keyword("turun-ke"), One,
       Keyword("lakukan")>>,
     <<Keyword("untuk"), Id("x"), Becomes, One, Keyword("lakukan")>>}

ControlWords ==
    {h \o b : h \in HeadWords, b \in BodyWords}
        \cup {<<Keyword("jika"), Id("true"), Keyword("maka")>> \o b
                  \o <<Keyword("selain-itu")>> \o e : b \in BodyWords, e \in BodyWords}
        \cup BodyWords

ContractWords ==
    {<<Keyword("program"), Id("p"), Semi, Keyword("mulai")>> \o st \o rest
        \o <<Keyword("selesai"), <<"DOT", ".">>>> :
            st \in ControlWords, rest \in {<<>>, <<Semi, Id("x"), Becomes, One>>}}

\* Parser(tokens) on a whole program, then validate_ast_contract on the tree.
InitTree ==
    /\ par_tokens \in {[k \in 1 .. Len(ws) |-> Token(ws[k][1], ws[k][2], k - 1, k)] :
                          ws \in ContractWords}
    /\ current_index = 0
    /\ current_token = Cur(par_tokens, 0)
    /\ par_ret = <<>>
    /\ par_err = ParErr(R(0, "none", NoToken, <<>>))
    /\ g_par = ParCall("new", NoValue, NoValue, 0)
    /\ SemIdle
    /\ RunIdle
    /\ PassIdle
    /\ DfaIdle
    /\ LexerIdle
    /\ TableIdle
    /\ VisitorIdle

NextTree ==
    \/ g_par.op = "new" /\ Parse
    \/ ValidateAstContract

SpecTree == InitTree /\ [][NextTree]_vars

\* ----------------------------------------------------------------------
\* Two visitors, one after the other, over equal trees
\* ----------------------------------------------------------------------

\* visit_array_type for "larik [low .. high] dari element_name": the element
\* type, then enter_array, then a new Type with the kind tag INTEGER.
visit_array_type(S, tm, element_name, low, high) ==
    LET element_type == visit_simple_type(S, tm, element_name)
    IN IF element_type = <<>>
       THEN [st |-> S, type |-> <<>>, err |-> "UndeclaredIdentifierError"]
       ELSE [st |-> enter_array(S, INTEGER_TYPE, element_type, low, high,
                                get_type_size(element_type)),
             type |-> array_type(element_type, low, high),
             err |-> "none"]

\* visit_var_declaration of identifiers with an array type.
visit_array_var_declaration(S, tm, identifiers, element_name, low, high) ==
    LET type_spec == visit_array_type(S, tm, element_name, low, high)
    IN IF type_spec.err # "none" THEN Outcome(S, type_spec.err)
       ELSE declare_identifiers(type_spec.st, identifiers, type_spec.type)

VisitArrayVarDeclaration(identifiers, element_name, low, high) ==
    /\ InBlock("variabel")
    /\ Follow(Visit("VarDeclaration of ArrayType", identifiers,
                    <<element_name, low, high>>))
    /\ UserEntries + Len(identifiers) <= MaxDecl
    /\ ax + 1 < MaxArrays
    /\ Finish(visit_array_var_declaration(ST, type_map, identifiers, element_name,
                                          low, high),
              g_open[level + 1], identifiers)
    /\ vis_stack' = SetPhase("variabel")
    /\ UNCHANGED <<g_open, g_count, type_map, current_function_type>>

\* A variant that builds the new visitor on the table an earlier one left.
SemanticVisitor_on_left_table(left) ==
    [symbol_table |-> init_builtins(left, Builtins),
     type_map |-> TypeMapInit,
     current_function_type |-> <<>>]

\* SemanticVisitor.__init__ when an earlier instance has left the table
\* left: a new SymbolTable(), a new type_map dictionary over the module's
\* Type constants (which no handler assigns to), no function type, then
\* _init_builtins. Nothing of left is read.
SemanticVisitor(left) ==
    [symbol_table |-> init_builtins(SymbolTableInit, Builtins),
     type_map |-> TypeMapInit,
     current_function_type |-> <<>>]

\* What a visitor ended with.
Ended == [symbol_table |-> ST, err |-> vis_err, type_map |-> type_map]

\* The first visitor has returned or raised; a second one is constructed
\* and is given a tree equal to the first one's.
SecondVisitor ==
    /\ vis_pc \in {"done", "raised"}
    /\ first_run = <<>>
    /\ first_run' = Ended
    /\ SetST(SemanticVisitor(ST).symbol_table)
    /\ type_map' = SemanticVisitor(ST).type_map
    /\ current_function_type' = SemanticVisitor(ST).current_function_type
    /\ vis_pc' = "new"
    /\ vis_err' = "none"
    /\ vis_stack' = <<>>
    /\ g_owner' = [k \in 1 .. Len(Builtins) |->
                       Owner(0, Builtins[k][1], Builtins[k][2], TRUE)]
    /\ g_open' = <<0>>
    /\ g_count' = 0
    /\ g_last' = Last("init", None, -1, FALSE, 0)
    /\ UNCHANGED <<sym_err, g_ast, dfaVars, lexVars, passVars, parVars, semVars>>

\* The first SemanticVisitor(), as in InitVis.
InitRuns == InitVis

NextRuns ==
    \/ \E name \in {"p"} : VisitProgram(name)
    \/ \E identifier \in {"x"}, shape \in {"int"} :
           VisitConstDeclaration(identifier, shape)
    \/ \E identifier \in {"y"}, type_name \in {"real"} :
           VisitTypeDeclaration(identifier, type_name)
    \/ \E identifiers \in {<<"x">>, <<"x", "y">>}, type_name \in {"integer", "y"} :
           VisitVarDeclaration(identifiers, type_name)
    \/ \E identifiers \in {<<"y">>}, element_name \in {"integer", "y"},
          low \in {1}, high \in {2} :
           VisitArrayVarDeclaration(identifiers, element_name, low, high)
    \/ \E identifiers \in {<<"x">>}, type_name \in {"integer"} :
           VisitParameter(identifiers, type_name)
    \/ \E name \in Names : VisitProcedureDeclaration(name)
    \/ \E name \in {"x"}, type_name \in {"real", "y"} :
           VisitFunctionDeclaration(name, type_name)
    \/ ReturnFromSubprogram
    \/ ReturnFromProgram
    \/ SecondVisitor

SpecRuns == InitRuns /\ [][NextRuns]_vars

\* ======================================================================
\* Claims
\* ======================================================================

\* C1: lookup(name) returns the most recently entered entry called name of
\* the innermost open scope that has one, else a level-0 entry called name,
\* and None only when neither exists, whatever the kinds of the entries.
C1_LookupShadowing ==
    sym_err = "none" =>
        \A name \in Names :
            LET r == lookup(ST, name)
            IN IF ScopedEntry(name) # None THEN r = ScopedEntry(name)
               ELSE IF Level0Named(name) # {} THEN r \in Level0Named(name)
               ELSE r = None

\* C2: a declaration that introduces a name already entered in the same
\* still-open scope raises DuplicateDeclarationError and enters nothing for
\* that name, whatever was declared in between and whatever the kinds; a name
\* that is new to the scope (it may exist in an enclosing one) is accepted.
C2_DuplicateDeclaration ==
    g_last.op = "declare" =>
        /\ tx = g_last.tx0 + g_last.fresh
        /\ vis_err = IF g_last.dup THEN "DuplicateDeclarationError" ELSE "none"

\* C3, first half: the entries of an exited scope stay in tab as they were
\* entered and neither lookup nor lookup_current_scope returns one of them.
ExitedEntriesKeptAndHidden ==
    /\ tx + 1 = Len(tab) /\ Len(tab) = Len(g_owner)
    /\ \A i \in ExitedEntries :
           /\ tab[i + 1].name = g_owner[i + 1].name
           /\ tab[i + 1].obj_kind = g_owner[i + 1].obj_kind
    /\ \A name \in Names :
           /\ lookup(ST, name) \notin ExitedEntries
           /\ lookup_current_scope(ST, name) \notin ExitedEntries

\* C3, second half: right after exit_scope, a name that the exited scope
\* shadowed resolves to the entry of the enclosing scopes again.
ShadowedResolvesAgain ==
    (g_last.op = "exit_scope" /\ g_last.scope # None) =>
        \A name \in Names :
            (name \in DeclaredIn(g_last.scope) /\ ScopedEntry(name) # None)
                => lookup(ST, name) = ScopedEntry(name)

\* C3: after exit_scope every entry of the exited scope is still in tab but
\* is never returned by lookup or lookup_current_scope, and a name shadowed
\* inside the exited scope resolves again to the enclosing scope's entry.
C3_ScopeExit ==
    sym_err = "none" => (ExitedEntriesKeptAndHidden /\ ShadowedResolvesAgain)

\* ---------------------------------------------------------------- lexer
\* The text of n characters at offset p of the source.
Substr(p, n) == SubSeq(source_code, p + 1, p + n)

\* The state the automaton is in after reading w from state, NoState when
\* some character has no transition.
RECURSIVE Run(_, _)
Run(state, w) ==
    IF w = <<>> \/ state = NoState THEN state
    ELSE Run(step(state, Head(w)), Tail(w))

\* The lengths of the prefixes at offset p that the automaton accepts.
AcceptedLens(p) ==
    {n \in 1 .. Len(source_code) - p :
        get_token_type(Run(DFAConfig.start_state, Substr(p, n))) # NoState}

\* C4: at each scan position where some prefix is accepted, the lexer emits
\* the longest accepted prefix, the reader ends at the end of that lexeme
\* even when more characters were consumed, so the next token starts at
\* start + length(lexeme), and tokenize does not raise.
C4_MaximalMunch ==
    \A k \in 1 .. Len(g_scan) :
        AcceptedLens(g_scan[k].start) # {} =>
            /\ Len(g_scan[k].token) = 1
            /\ g_scan[k].token[1].start = g_scan[k].start
            /\ g_scan[k].token[1].value
                   = Substr(g_scan[k].start, Max(AcceptedLens(g_scan[k].start)))
            /\ g_scan[k].resume
                   = g_scan[k].start + Max(AcceptedLens(g_scan[k].start))
            /\ k < Len(g_scan) => g_scan[k + 1].start = g_scan[k].resume
            /\ k = Len(g_scan) => (lex_err = "none" /\ lex_pc # "raised")

\* C5: at a scan position p where no prefix is accepted, whether or not the
\* automaton could consume characters from p, the lexer emits exactly one
\* UNKNOWN token, the character at p with span [p, p+1), resumes at p+1 and
\* does not raise.
C5_UnknownCharacter ==
    \A k \in 1 .. Len(g_scan) :
        AcceptedLens(g_scan[k].start) = {} =>
            /\ g_scan[k].token
                   = <<Token("UNKNOWN", Substr(g_scan[k].start, 1),
                             g_scan[k].start, g_scan[k].start + 1)>>
            /\ g_scan[k].resume = g_scan[k].start + 1
            /\ k = Len(g_scan) => (lex_err = "none" /\ lex_pc # "raised")

\* The values of a token list, one after the other.
Values(toks) == Flatten([k \in 1 .. Len(toks) |-> toks[k].value])

\* C6: when tokenize returns a list without UNKNOWN tokens, the values of
\* the returned tokens, in order, spell the source text.
C6_RoundTrip ==
    (lex_pc = "returned" /\ \A k \in 1 .. Len(tokens) : tokens[k].type # "UNKNOWN")
        => Values(tokens) = source_code

\* ------------------------------------------------- merge_negative_numbers
\* The next and the previous token of pass_in[i] that is neither white
\* space nor a comment (Len(pass_in) + 1 and 0 when there is none).
NextTok(i) ==
    Min({j \in i + 1 .. Len(pass_in) : pass_in[j].type \notin Skipped}
            \cup {Len(pass_in) + 1})

PrevTok(i) ==
    Max({j \in 1 .. i - 1 : pass_in[j].type \notin Skipped} \cup {0})

\* pass_in[i] is a '-' whose next such token is a NUMBER.
MinusBeforeNumber(i) ==
    /\ pass_in[i].type = "ARITHMETIC_OPERATOR"
    /\ pass_in[i].value = <<"-">>
    /\ NextTok(i) <= Len(pass_in)
    /\ pass_in[NextTok(i)].type = "NUMBER"

\* The token the merge of pass_in[i] with its number makes.
MergedAt(i) ==
    Token("NUMBER", <<"-">> \o pass_in[NextTok(i)].value,
          pass_in[i].start, pass_in[NextTok(i)].end)

InOutput(t) == \E k \in 1 .. Len(pass_out) : pass_out[k] = t

\* The language's spellings of then, else, do, of, to and downto, as the
\* parser expects them.
LanguageUnaryKeywords ==
    {<<"m", "a", "k", "a">>, <<"s", "e", "l", "a", "i", "n", "-", "i", "t", "u">>,
     <<"l", "a", "k", "u", "k", "a", "n">>, <<"d", "a", "r", "i">>, <<"k", "e">>,
     <<"t", "u", "r", "u", "n", "-", "k", "e">>}

UnaryPosition(i) ==
    \/ PrevTok(i) = 0
    \/ /\ PrevTok(i) # 0
       /\ \/ pass_in[PrevTok(i)].type \in
                 {"ASSIGN_OPERATOR", "RELATIONAL_OPERATOR", "ARITHMETIC_OPERATOR",
                  "LOGICAL_OPERATOR", "LPARENTHESIS", "LBRACKET", "COMMA",
                  "COLON", "RANGE_OPERATOR"}
          \/ /\ pass_in[PrevTok(i)].type = "KEYWORD"
             /\ Lower(pass_in[PrevTok(i)].value) \in LanguageUnaryKeywords

\* C7: a '-' whose next token (white space and comments skipped) is a NUMBER
\* is merged with it into one NUMBER, '-' + the number's text, spanning
\* both, whenever the previous token (skipped likewise) is absent, is one
\* of the nine operator and punctuation kinds, or is one of the language's
\* keywords for then/else/do/of/to/downto.
C7_NegativeMerge ==
    pass_pc = "merged" =>
        \A i \in 1 .. Len(pass_in) :
            (MinusBeforeNumber(i) /\ UnaryPosition(i)) => InOutput(MergedAt(i))

BinaryPosition(i) ==
    /\ PrevTok(i) # 0
    /\ pass_in[PrevTok(i)].type \in
           {"IDENTIFIER", "NUMBER", "RPARENTHESIS", "RBRACKET"}

InInput(t) == \E k \in 1 .. Len(pass_in) : pass_in[k] = t

IsMerge(t) == \E i \in 1 .. Len(pass_in) : MinusBeforeNumber(i) /\ t = MergedAt(i)

\* t lies inside the span of a merged token of the output.
Covered(t) ==
    \E k \in 1 .. Len(pass_out) :
        /\ ~InInput(pass_out[k])
        /\ pass_out[k].start <= t.start
        /\ t.end <= pass_out[k].end

\* C8: a '-' before a NUMBER whose previous token (white space and comments
\* skipped) is an IDENTIFIER, a NUMBER, ')' or ']' stays a token of its own,
\* and so does the NUMBER; every output token is an input token or a merge,
\* and the input tokens outside the merges are the output tokens that are
\* not merges, unchanged and in the same order.
C8_BinaryMinusKept ==
    pass_pc = "merged" =>
        /\ \A i \in 1 .. Len(pass_in) :
               (MinusBeforeNumber(i) /\ BinaryPosition(i)) =>
                   /\ InOutput(pass_in[i])
                   /\ InOutput(pass_in[NextTok(i)])
                   /\ ~InOutput(MergedAt(i))
        /\ \A k \in 1 .. Len(pass_out) : InInput(pass_out[k]) \/ IsMerge(pass_out[k])
        /\ SelectSeq(pass_out, InInput) = SelectSeq(pass_in, LAMBDA t : ~Covered(t))

\* A binary '-' left alone next to a merge in the same list.
C8_Witness ==
    /\ pass_pc = "merged"
    /\ \E i \in 1 .. Len(pass_in) : MinusBeforeNumber(i) /\ BinaryPosition(i)
    /\ \E k \in 1 .. Len(pass_out) : ~InInput(pass_out[k])

\* --------------------------------------------------------- reclassification
\* The parts of C9 that do not depend on which of the two tables is asked
\* first: the token keeps the spelling of the source, two IDENTIFIER lexemes
\* with the same lower-cased text get the same kind, and a lexeme of another
\* DFA kind keeps that kind.
SpellingAndCaseKept ==
    \A k \in 1 .. Len(g_scan) :
        g_scan[k].token # <<>> =>
            LET t == g_scan[k].token[1]
            IN /\ t.value = Substr(t.start, Len(t.value))
               /\ g_scan[k].raw = "IDENTIFIER" =>
                      \A m \in 1 .. Len(g_scan) :
                          (/\ g_scan[m].raw = "IDENTIFIER"
                           /\ Lower(g_scan[m].token[1].value) = Lower(t.value))
                              => g_scan[m].token[1].type = t.type
               /\ g_scan[k].raw \notin {"IDENTIFIER", NoState} => t.type = g_scan[k].raw
               /\ g_scan[k].raw = NoState => t.type = "UNKNOWN"

InReservedMap(w) == \E kv \in DFAConfig.reserved_map : kv[1] = Lower(w)

MappedKinds(w) == {kv[2] : kv \in {e \in DFAConfig.reserved_map : e[1] = Lower(w)}}

\* C9 as stated: every lexeme in the keyword set becomes KEYWORD and every
\* lexeme in the reserved map gets the mapped kind.
C9_KeywordReclassification ==
    /\ SpellingAndCaseKept
    /\ \A k \in 1 .. Len(g_scan) :
           g_scan[k].raw = "IDENTIFIER" =>
               LET t == g_scan[k].token[1]
               IN /\ Lower(t.value) \in DFAConfig.keywords => t.type = "KEYWORD"
                  /\ InReservedMap(t.value) => t.type \in MappedKinds(t.value)

\* C9 amended: a lexeme in the reserved map gets the mapped kind, and a
\* lexeme in the keyword set that is not in the reserved map becomes
\* KEYWORD; the rest as stated.
C9_ReservedMapFirst ==
    /\ SpellingAndCaseKept
    /\ \A k \in 1 .. Len(g_scan) :
           g_scan[k].raw = "IDENTIFIER" =>
               LET t == g_scan[k].token[1]
               IN /\ InReservedMap(t.value) => t.type \in MappedKinds(t.value)
                  /\ (Lower(t.value) \in DFAConfig.keywords /\ ~InReservedMap(t.value))
                         => t.type = "KEYWORD"

\* An upper-case spelling of a word of both tables has been scanned, and so
\* has a cased keyword that is in the keyword set alone.
C9_Witness ==
    /\ \E k \in 1 .. Len(g_scan) :
           /\ g_scan[k].raw = "IDENTIFIER"
           /\ g_scan[k].token[1].value # Lower(g_scan[k].token[1].value)
           /\ Lower(g_scan[k].token[1].value) \in DFAConfig.keywords
           /\ InReservedMap(g_scan[k].token[1].value)
    /\ \E k \in 1 .. Len(g_scan) :
           /\ g_scan[k].raw = "IDENTIFIER"
           /\ g_scan[k].token[1].value # Lower(g_scan[k].token[1].value)
           /\ g_scan[k].token[1].type = "KEYWORD"

\* ------------------------------------------------------------------- DFA
\* The targets the configuration lists for (state, char) itself, and for a
\* character class of state whose pattern matches char.
LiteralTargets(state, char) ==
    {DFAConfig.transitions[k][3] :
        k \in {n \in 1 .. Len(DFAConfig.transitions) :
                  /\ DFAConfig.transitions[n][1] = state
                  /\ DFAConfig.transitions[n][2] = char}}

ClassTargets(state, char) ==
    {DFAConfig.transitions[k][3] :
        k \in {n \in 1 .. Len(DFAConfig.transitions) :
                  /\ DFAConfig.transitions[n][1] = state
                  /\ \E cc \in DFAConfig.char_classes :
                         cc[1] = DFAConfig.transitions[n][2] /\ char \in cc[2]}}

\* C10: step(char) returns the target of the literal transition
\* (current_state, char) when there is one, else the target of a transition
\* on a class whose pattern matches char; with no transition it returns None
\* and leaves current_state alone, and a state it returns is the new
\* current_state.
C10_Step ==
    g_dfa.op = "step" =>
        /\ LiteralTargets(g_dfa.before, g_dfa.char) # {}
               => dfa_ret \in LiteralTargets(g_dfa.before, g_dfa.char)
        /\ (/\ LiteralTargets(g_dfa.before, g_dfa.char) = {}
            /\ ClassTargets(g_dfa.before, g_dfa.char) # {})
               => dfa_ret \in ClassTargets(g_dfa.before, g_dfa.char)
        /\ (/\ LiteralTargets(g_dfa.before, g_dfa.char) = {}
            /\ ClassTargets(g_dfa.before, g_dfa.char) = {})
               => (dfa_ret = NoState /\ current_state = g_dfa.before)
        /\ dfa_ret # NoState => current_state = dfa_ret

\* step took the literal transition on a character that a class of the same
\* state matches too, and it went to another state than the class does.
C10_Witness ==
    /\ g_dfa.op = "step"
    /\ LiteralTargets(g_dfa.before, g_dfa.char) # {}
    /\ ClassTargets(g_dfa.before, g_dfa.char) # {}
    /\ dfa_ret \notin ClassTargets(g_dfa.before, g_dfa.char)
    /\ current_state = dfa_ret

\* C11: can_transition(char) leaves current_state as it was and answers True
\* exactly when step(char), called in that state, returns a state.
C11_CanTransition ==
    g_dfa.op = "can_transition" =>
        /\ current_state = g_dfa.before
        /\ dfa_ret \in BOOLEAN
        /\ dfa_ret <=> (step(g_dfa.before, g_dfa.char) # NoState)
        /\ dfa_ret <=> (LiteralTargets(g_dfa.before, g_dfa.char)
                            \cup ClassTargets(g_dfa.before, g_dfa.char) # {})

\* can_transition answered True for a character that only a class of the
\* state matches, in a state other than the start state.
C11_Witness ==
    /\ g_dfa.op = "can_transition"
    /\ dfa_ret = TRUE
    /\ LiteralTargets(g_dfa.before, g_dfa.char) = {}
    /\ ClassTargets(g_dfa.before, g_dfa.char) # {}
    /\ current_state # DFAConfig.start_state

\* The error kinds of src/error/syntax_error.py.
SyntaxErrorFamily == {"SyntaxError", "UnexpectedTokenError", "UnexpectedEOFError"}

\* C12: Parser.parse returns a Program or fails with an error of the
\* SyntaxError family, and when it fails with the tokens run out (the cursor
\* is past the last token) the error is UnexpectedEOFError.
C12_ParserFailures ==
    g_par.op = "parse" =>
        /\ par_err.kind = "none" => par_ret.node = "Program"
        /\ par_err.kind # "none" => par_err.kind \in SyntaxErrorFamily
        /\ (par_err.kind # "none" /\ current_index >= Len(par_tokens)) =>
                par_err.kind = "UnexpectedEOFError"

\* The first k tokens are a whole program: parse, given them alone, returns.
IsProgram(toks, k) == parse(SubSeq(toks, 1, k), 0).err = "none"

\* C13: when a proper prefix of the token list is a whole program, parse on a
\* new parser fails with a syntax error that carries the first token after
\* that prefix, and returns no tree; so when parse returns a tree the cursor
\* is past the last token.
C13_TrailingTokens ==
    (g_par.op = "parse" /\ g_par.index = 0) =>
        /\ \A k \in 0 .. Len(par_tokens) - 1 :
              IsProgram(par_tokens, k) =>
                  /\ par_err.kind \in SyntaxErrorFamily
                  /\ par_err.token = par_tokens[k + 1]
                  /\ par_ret = <<>>
        /\ par_err.kind = "none" => current_index = Len(par_tokens)

C13_Witness ==
    /\ g_par.op = "parse"
    /\ g_par.index = 0
    /\ \E k \in 0 .. Len(par_tokens) - 1 : IsProgram(par_tokens, k)
    /\ par_err.kind = "SyntaxError"

\* expect and match compare the given value with the token's value in lower
\* case; NoValue is "no value given".
Fits(tok, token_type, value) ==
    /\ tok # NoToken
    /\ tok.type = token_type
    /\ value # NoValue => StrLower(tok.value) = StrLower(value)

\* C14: match leaves the cursor where it was, raises nothing and answers
\* whether the current token fits; expect on a fitting token moves the cursor
\* one token on and returns the token that was current, and otherwise raises
\* and leaves the cursor and the current token as they were; advance with no
\* current token raises UnexpectedEOFError.
C14_CursorPrimitives ==
    LET before == Cur(par_tokens, g_par.index)
        unmoved == current_index = g_par.index /\ current_token = before
    IN /\ g_par.op = "match" =>
            /\ unmoved
            /\ par_err.kind = "none"
            /\ par_ret = Fits(before, g_par.token_type, g_par.value)
       /\ g_par.op = "expect" =>
            IF Fits(before, g_par.token_type, g_par.value)
            THEN /\ par_err.kind = "none"
                 /\ par_ret = before
                 /\ current_index = g_par.index + 1
                 /\ current_token = Cur(par_tokens, g_par.index + 1)
            ELSE /\ par_err.kind \in SyntaxErrorFamily
                 /\ unmoved
       /\ (g_par.op = "advance" /\ before = NoToken) =>
            /\ par_err.kind = "UnexpectedEOFError"
            /\ unmoved

C14_Witness ==
    /\ g_par.op = "expect"
    /\ g_par.index > 0
    /\ Cur(par_tokens, g_par.index) # NoToken
    /\ ~Fits(Cur(par_tokens, g_par.index), g_par.token_type, g_par.value)
    /\ Cur(par_tokens, g_par.index).type = g_par.token_type
    /\ par_err.kind = "UnexpectedTokenError"

\* An assignment's right-hand side begins at token k + 1 of a program whose
\* tokens up to there are "program p ; mulai x :=".
ExpressionRequiredAt(toks, k) ==
    /\ k = 6
    /\ Len(toks) >= k
    /\ [j \in 1 .. 6 |-> toks[j].type] =
          <<"KEYWORD", "IDENTIFIER", "SEMICOLON", "KEYWORD", "IDENTIFIER",
            "ASSIGN_OPERATOR">>
    /\ StrLower(toks[1].value) = "program"
    /\ StrLower(toks[4].value) = "mulai"

\* The token types a factor starts with (an ARITHMETIC_OPERATOR + or - may
\* precede the first factor of an expression).
StartsFactor(tok) ==
    \/ tok.type \in {"NUMBER", "STRING_LITERAL", "CHAR_LITERAL", "LPARENTHESIS",
                     "IDENTIFIER"}
    \/ tok.type = "LOGICAL_OPERATOR" /\ StrLower(tok.value) = "tidak"
    \/ tok.type = "ARITHMETIC_OPERATOR" /\ tok.value \in {"+", "-"}

\* C15: when the token where an assignment's expression must begin cannot
\* start a factor, parse fails with UnexpectedTokenError carrying that token
\* and returns no tree.
C15_MissingExpression ==
    (g_par.op = "parse" /\ g_par.index = 0) =>
        \A k \in 1 .. Len(par_tokens) - 1 :
            (ExpressionRequiredAt(par_tokens, k) /\ ~StartsFactor(par_tokens[k + 1])) =>
                /\ par_err.kind = "UnexpectedTokenError"
                /\ par_err.token = par_tokens[k + 1]
                /\ par_ret = <<>>

\* A type with neither array nor record information.
SimpleType(t) == t.array_info = <<>> /\ t.record_info = <<>>

ArrayOf(t) == t.array_info # <<>> /\ t.record_info = <<>>

RecordType(t) == t.record_info # <<>> /\ t.array_info = <<>>

\* Compatibility as C16 words it.
RECURSIVE Compatible(_, _)
Compatible(a, b) ==
    \/ SimpleType(a) /\ SimpleType(b) /\ a.kind = b.kind
    \/ /\ ArrayOf(a)
       /\ ArrayOf(b)
       /\ Compatible(a.array_info.element_type, b.array_info.element_type)
    \/ SimpleType(a) /\ SimpleType(b) /\ a.kind = "REAL" /\ b.kind = "INTEGER"

\* C16: compatible_with(a, b) is true exactly when a and b are simple types
\* of the same kind, or arrays with compatible element types, or a is REAL
\* and b is INTEGER; a simple type and an array are compatible in neither
\* direction.
C16_CompatibleWith ==
    g_sem.op = "compatible_with" =>
        /\ sem_ret = Compatible(g_sem.self, g_sem.other)
        /\ (SimpleType(g_sem.self) /\ ArrayOf(g_sem.other)) => sem_ret = FALSE
        /\ (ArrayOf(g_sem.self) /\ SimpleType(g_sem.other)) => sem_ret = FALSE

\* The type the declarations give the variable name.
DeclaredType(name) ==
    tab[CHOOSE k \in 1 .. Len(tab) :
            tab[k].name = name /\ tab[k].obj_kind = "VARIABLE"].type

IsDeclared(name) ==
    \E k \in 1 .. Len(tab) : tab[k].name = name /\ tab[k].obj_kind = "VARIABLE"

\* A Variable node that names a declared variable, without index or field.
Plain(node) ==
    /\ node.node = "Variable"
    /\ node.index = <<>>
    /\ node.field = NoValue
    /\ IsDeclared(node.name)

\* C17: two record types are compatible_with each other, a record type with
\* itself included, and the assignment of a record variable to a record
\* variable passes the check.
C17_RecordCompatibility ==
    /\ (g_sem.op = "compatible_with" /\ RecordType(g_sem.self) /\ RecordType(g_sem.other)) =>
            sem_ret = TRUE
    /\ (/\ g_sem.op = "visit_assignment_statement"
        /\ Plain(g_sem.node.variable)
        /\ Plain(g_sem.node.expression)
        /\ RecordType(DeclaredType(g_sem.node.variable.name))
        /\ RecordType(DeclaredType(g_sem.node.expression.name))) =>
            /\ sem_err = "none"
            /\ sem_ret = g_sem.node

\* The type of an expression that is a literal or a plain variable.
ExpressionType(node) ==
    IF node.node = "Variable" THEN DeclaredType(node.name)
    ELSE IF node.node = "Number"
    THEN IF node.value.type = "int" THEN INTEGER_TYPE ELSE REAL_TYPE
    ELSE IF node.node = "Boolean" THEN BOOLEAN_TYPE
    ELSE STRING_TYPE

\* C18: the assignment of an expression (a literal or a variable) to a
\* variable succeeds when the variable is REAL and the expression INTEGER
\* and when both have the same simple type, raises TypeMismatchError when the
\* variable is INTEGER and the expression REAL, and raises it exactly when
\* the variable's type is not compatible_with the expression's.
C18_AssignmentDirection ==
    (/\ g_sem.op = "visit_assignment_statement"
     /\ Plain(g_sem.node.variable)
     /\ g_sem.node.expression.node = "Variable" => Plain(g_sem.node.expression)) =>
        LET v == DeclaredType(g_sem.node.variable.name)
            e == ExpressionType(g_sem.node.expression)
        IN /\ sem_err \in {"none", "TypeMismatchError"}
           /\ (sem_err = "none") = compatible_with(v, e)
           /\ (sem_err = "none") = (sem_ret = g_sem.node)
           /\ (SimpleType(v) /\ SimpleType(e)) =>
                 /\ (v.kind = "REAL" /\ e.kind = "INTEGER") => sem_err = "none"
                 /\ v.kind = e.kind => sem_err = "none"
                 /\ (v.kind = "INTEGER" /\ e.kind = "REAL") => sem_err = "TypeMismatchError"
                 /\ (v.kind # e.kind /\ ~(v.kind = "REAL" /\ e.kind = "INTEGER")) =>
                        sem_err = "TypeMismatchError"

C18_Witness ==
    /\ g_sem.op = "visit_assignment_statement"
    /\ Plain(g_sem.node.variable)
    /\ g_sem.node.expression.node = "Variable"
    /\ Plain(g_sem.node.expression)
    /\ DeclaredType(g_sem.node.variable.name) = INTEGER_TYPE
    /\ DeclaredType(g_sem.node.expression.name) = REAL_TYPE
    /\ sem_err = "TypeMismatchError"

\* The tokens of an access x [ i ] . f.
ChainedAccess(toks) ==
    /\ Len(toks) = 6
    /\ [k \in 1 .. 6 |-> toks[k].type] \in
          {<<"IDENTIFIER", "LBRACKET", i, "RBRACKET", "DOT", "IDENTIFIER">> :
              i \in {"NUMBER", "IDENTIFIER"}}

\* The type of the index token of x [ i ].
IndexType(tok) ==
    IF tok.type = "IDENTIFIER" THEN DeclaredType(tok.value)
    ELSE IF tok.value = "1" THEN INTEGER_TYPE ELSE REAL_TYPE

\* C19: for x[i].f, where x is declared an array of a record type with a
\* field f, the whole access is parsed into one Variable; with an index of
\* ordinal type it resolves to the declared type of f, and with an index of
\* another type it raises InvalidArrayIndexError.
C19_ChainedAccess ==
    (/\ g_sem.op = "access"
     /\ ChainedAccess(g_sem.tokens)
     /\ ArrayOf(DeclaredType("x"))
     /\ RecordType(DeclaredType("x").array_info.element_type)
     /\ \E k \in 1 .. Len(DeclaredType("x").array_info.element_type.record_info.fields) :
           DeclaredType("x").array_info.element_type.record_info.fields[k][1] = "f") =>
        LET fields == DeclaredType("x").array_info.element_type.record_info.fields
            f == CHOOSE k \in 1 .. Len(fields) : fields[k][1] = "f"
        IN /\ g_sem.parsed = Len(g_sem.tokens)
           /\ IF IndexType(g_sem.tokens[3]).kind \in {"INTEGER", "BOOLEAN", "CHAR"}
                 /\ SimpleType(IndexType(g_sem.tokens[3]))
              THEN sem_err = "none" /\ sem_ret = fields[f][2]
              ELSE sem_err = "InvalidArrayIndexError"

\* The VARIABLE entries of the scope with id scope, in entry order; the
\* scope's block is btab[scope].
VariablesOf(scope) ==
    {k \in 1 .. Len(g_owner) :
        g_owner[k].scope = scope /\ g_owner[k].obj_kind = "VARIABLE"}

\* C20: in a scope opened by enter_scope whose entries were all entered at
\* the current level and without an address, the VARIABLE entries have the
\* addresses 3, 4, 5, ... in entry order, the vsze of the scope's block is
\* their number, and the entries of other kinds have address 0.
C20_AddressAllocation ==
    (sym_err = "none" /\ \A k \in 1 .. Len(g_owner) : ~g_owner[k].given) =>
        \A scope \in 1 .. bx :
            /\ \A k \in VariablesOf(scope) :
                  tab[k].address = 3 + Cardinality({j \in VariablesOf(scope) : j < k})
            /\ btab[scope + 1].vsze = Cardinality(VariablesOf(scope))
            /\ \A k \in 1 .. Len(g_owner) :
                  (g_owner[k].scope = scope /\ g_owner[k].obj_kind # "VARIABLE") =>
                      tab[k].address = 0

\* C21: exit_scope at a level above 0 takes one from level and sets dx to
\* the vsze of the block of the scope it returns to, and leaves tab, atab,
\* btab and display (and tx, ax, bx) as they were; exit_scope at level 0
\* changes nothing in the table.
C21_ExitScope ==
    [][g_last'.op = "exit_scope" =>
          IF level > 0
          THEN /\ level' = level - 1
               /\ dx' = btab[g_open[level] + 1].vsze
               /\ UNCHANGED <<tab, atab, btab, display, tx, ax, bx>>
          ELSE UNCHANGED <<tab, atab, btab, tx, ax, bx, level, display, dx>>]_vars

\* exit_scope has returned to a scope that holds a variable, with an array
\* in atab, from a scope whose dx was different.
C21_Witness ==
    /\ g_last.op = "exit_scope"
    /\ g_last.scope # None
    /\ atab # <<>>
    /\ btab[g_open[level + 1] + 1].vsze = 1
    /\ dx = 1

\* C29: with addresses assigned by enter, no two VARIABLE entries of the
\* same block have the same address, whatever scopes were entered and
\* exited between them.
C29_AddressUniqueness ==
    (sym_err = "none" /\ \A k \in 1 .. Len(g_owner) : ~g_owner[k].given) =>
        \A j, k \in 1 .. Len(g_owner) :
            (/\ j < k
             /\ g_owner[j].scope = g_owner[k].scope
             /\ g_owner[j].obj_kind = "VARIABLE"
             /\ g_owner[k].obj_kind = "VARIABLE") =>
                tab[j].address # tab[k].address

\* C30: after any sequence of enter_scope and exit_scope, the last call
\* completed normally, level is at least 0 and display[level] is the block
\* of the innermost open scope (block 0 at level 0).
C30_DisplayValidity ==
    /\ sym_err = "none"
    /\ level >= 0
    /\ level < DisplaySize
    /\ display[level] = g_open[level + 1]

\* The entry of the subprogram whose scope is open at level l >= 1.
SubprogramEntry(l) ==
    CHOOSE i \in 0 .. tx :
        /\ tab[i + 1].obj_kind \in {"PROCEDURE", "FUNCTION"}
        /\ tab[i + 1].ref = display[l]

\* The subprogram's name has not been declared again in its body or deeper.
NotRedeclared(l) ==
    \A m \in l .. level :
        NamedIn(ScopeEntries(m), tab[SubprogramEntry(l) + 1].name) = {}

\* In the body of a subprogram: the level is the number of open
\* declarations, and the subprogram's name resolves to its own entry.
InsideSubprogram ==
    (vis_pc = "block" /\ vis_err = "none") =>
        /\ level = Len(vis_stack) - 1
        /\ \A l \in 1 .. level :
              NotRedeclared(l) => lookup(ST, tab[SubprogramEntry(l) + 1].name)
                                      = SubprogramEntry(l)

\* The step of a declaration handler that opened a scope without error.
SubprogramOpened ==
    (g_last'.op = "declare" /\ vis_err' = "none" /\ level' = level + 1) =>
        /\ tx' = tx + 1 /\ bx' = bx + 1
        /\ display'[level'] = bx'
        /\ tab'[tx' + 1].obj_kind \in {"PROCEDURE", "FUNCTION"}
        /\ tab'[tx' + 1].level = level
        /\ tab'[tx' + 1].ref = bx'
        /\ tab'[tx' + 1].link = btab[display[level] + 1].last
        /\ btab'[display[level] + 1].last = tx'
        /\ btab'[bx' + 1] = BlockEntry
        /\ Len(vis_stack') = Len(vis_stack) + 1

\* The step of visit_parameter that ended without error.
ParameterEntered ==
    (/\ g_last'.op = "declare" /\ vis_err' = "none"
     /\ vis_stack # <<>> /\ Top.phase = "parameter" /\ vis_stack' = vis_stack) =>
        /\ level' = level /\ tx' > tx
        /\ \A i \in tx + 1 .. tx' :
              /\ tab'[i + 1].obj_kind = "VARIABLE"
              /\ tab'[i + 1].level = level
              /\ g_owner'[i + 1].scope = g_open[level + 1]
              /\ tab'[i + 1].link = IF i = tx + 1 THEN btab[display[level] + 1].last
                                    ELSE i - 1
        /\ btab'[display[level] + 1].last = tx'

\* The step that ends the visit of a subprogram declaration.
SubprogramLeft ==
    (g_last'.op = "exit_scope" /\ vis_pc = "block") =>
        /\ level' = level - 1
        /\ level' = Len(vis_stack') - 1
        /\ UNCHANGED <<tab, btab, display>>

\* C22: a procedure or function declaration visited without error opens its
\* scope, then enters its own symbol at the enclosing level and in the
\* enclosing scope's chain with ref = the new block; inside the body the
\* subprogram's name resolves to that entry; each parameter becomes a
\* VARIABLE of the new scope; after the visit the level is what it was
\* before.
C22_SubprogramScoping ==
    /\ []InsideSubprogram
    /\ [][SubprogramOpened /\ ParameterEntered /\ SubprogramLeft]_vars

\* A subprogram with a parameter has been visited and left.
C22_Witness ==
    /\ g_last.op = "exit_scope"
    /\ vis_err = "none"
    /\ level = 0
    /\ \E i \in 0 .. tx : tab[i + 1].obj_kind = "VARIABLE" /\ tab[i + 1].level = 1
    /\ \E i \in 0 .. tx : tab[i + 1].obj_kind = "PROCEDURE" /\ tab[i + 1].ref = 1
                            /\ tab[i + 1].level = 0

\* A simple type of kind INTEGER or REAL.
Numeric(t) == SimpleType(t) /\ t.kind \in {"INTEGER", "REAL"}

\* The last visit was of the expression parsed from n tokens (the closing
\* semicolon included) whose operator, the k-th token, has this type.
VisitedOperator(n, k, token_type) ==
    /\ g_sem.op = "expression"
    /\ g_sem.node # <<>>
    /\ Len(g_sem.tokens) = n
    /\ g_sem.tokens[k].type = token_type

\* C24: the UnaryOp the parser builds for the logical-not operator is
\* accepted with a BOOLEAN operand and yields BOOLEAN, and raises
\* InvalidOperationError with any other operand; unary + and - accept
\* exactly the numeric operands and yield the operand's type.
C24_LogicalNot ==
    /\ VisitedOperator(3, 1, "LOGICAL_OPERATOR") =>
          /\ g_sem.node.node = "UnaryOp"
          /\ IF ExpressionType(g_sem.node.operand) = BOOLEAN_TYPE
             THEN sem_err = "none" /\ sem_ret = BOOLEAN_TYPE
             ELSE sem_err = "InvalidOperationError"
    /\ VisitedOperator(3, 1, "ARITHMETIC_OPERATOR") =>
          /\ g_sem.node.node = "UnaryOp"
          /\ IF Numeric(ExpressionType(g_sem.node.operand))
             THEN sem_err = "none" /\ sem_ret = ExpressionType(g_sem.node.operand)
             ELSE sem_err = "InvalidOperationError"

\* C25: a relational BinaryOp is accepted on (l, r) exactly when it is
\* accepted on (r, l); it is accepted exactly when l is compatible_with r,
\* raises TypeMismatchError otherwise, and yields BOOLEAN when accepted.
C25_RelationalSymmetry ==
    VisitedOperator(4, 2, "RELATIONAL_OPERATOR") =>
        /\ g_sem.node.node = "BinaryOp"
        /\ (sem_err = "none") <=>
               (visit(ST, BinaryOp(g_sem.node.right, g_sem.node.operator,
                                   g_sem.node.left)).err = "none")
        /\ (sem_err = "none") <=>
               compatible_with(ExpressionType(g_sem.node.left),
                               ExpressionType(g_sem.node.right))
        /\ sem_err \in {"none", "TypeMismatchError"}
        /\ sem_err = "none" => sem_ret = BOOLEAN_TYPE

\* C26: a BinaryOp with +, -, * or / is accepted exactly when both operands
\* are of the simple types INTEGER or REAL and raises InvalidOperationError
\* otherwise (on an array or a record too); the result is REAL if either
\* operand is REAL and INTEGER otherwise.
C26_ArithmeticTyping ==
    (/\ VisitedOperator(4, 2, "ARITHMETIC_OPERATOR")
     /\ g_sem.tokens[2].value \in {"+", "-", "*", "/"}) =>
        /\ g_sem.node.node = "BinaryOp"
        /\ IF /\ Numeric(ExpressionType(g_sem.node.left))
              /\ Numeric(ExpressionType(g_sem.node.right))
           THEN /\ sem_err = "none"
                /\ sem_ret = IF REAL_TYPE \in {ExpressionType(g_sem.node.left),
                                              ExpressionType(g_sem.node.right)}
                             THEN REAL_TYPE ELSE INTEGER_TYPE
           ELSE sem_err = "InvalidOperationError"

\* C28: in the list tokenize returns, the first token starts at offset 0,
\* each token starts where the one before it ends, and the last token ends
\* at the length of the source; no token list leaves source unread.
C28_SpansTile ==
    lex_pc = "returned" =>
        /\ tokens = <<>> => source_code = <<>>
        /\ tokens # <<>> =>
              /\ tokens[1].start = 0
              /\ tokens[Len(tokens)].end = Len(source_code)
        /\ \A k \in 1 .. Len(tokens) - 1 : tokens[k + 1].start = tokens[k].end

\* C27: the tree Parser.parse returns passes validate_ast_contract: no
\* required field of a node is None and no list holds None, the body of an
\* if, while or for statement included.
C27_RequiredFields ==
    g_sem.op = "validate_ast_contract" => sem_err = "none"


IsPrefix(s, t) == Len(s) <= Len(t) /\ s = SubSeq(t, 1, Len(s))

====
